---- MODULE Spec2Model ----
(***************************************************************************)
(* Stroke-to-fill expansion of linebender/gpu-stroke-expansion-paper       *)
(* (crate `flatten`): the stroke expander of stroke.rs, the cubic-to-Euler *)
(* spiral fitter of euler.rs and the secant solver EulerParams::from_angles.*)
(*                                                                         *)
(* Numbers.  The program computes in f64.  Here coordinates are integers   *)
(* on a grid, angles are integers in milliradians, and every division and  *)
(* square root is rounded to the grid (RDiv, ISqrt).  The values of the     *)
(* transcendental evaluations that cannot be computed on the grid (the     *)
(* Euler-spiral integral, the estimated fit error, the secant residual)    *)
(* are inputs of the actions, drawn from bounded sets.                     *)
(***************************************************************************)
EXTENDS Integers, Sequences, FiniteSets, TLC

(***************************************************************************)
(* Bounds of the model.                                                    *)
(***************************************************************************)
\* number of path elements fed to one stroke_undashed call
MaxEls == 3
\* number of Euler segments the fitter hands to one do_cubic call
MaxSegs == 1

(***************************************************************************)
(* Integer helpers.                                                        *)
(***************************************************************************)
Abs(a) == IF a < 0 THEN -a ELSE a

Sgn(a) == IF a < 0 THEN -1 ELSE IF a > 0 THEN 1 ELSE 0

Max(a, b) == IF a >= b THEN a ELSE b

Min(a, b) == IF a <= b THEN a ELSE b

\* a / b rounded to the nearest integer, halves away from zero (b # 0)
RDiv(a, b) == Sgn(a) * Sgn(b) * ((2 * Abs(a) + Abs(b)) \div (2 * Abs(b)))

RECURSIVE Gcd(_, _)
Gcd(a, b) == IF b = 0 THEN Abs(a) ELSE Gcd(b, a % Abs(b))

\* least integer >= a / b, for a >= 0 and b > 0
CeilDiv(a, b) == (a + b - 1) \div b

RECURSIVE ISqrtFrom(_, _)
ISqrtFrom(n, r) == IF r * r <= n THEN r ELSE ISqrtFrom(n, (r + n \div r) \div 2)

\* floor of the square root of 0 <= n < 2^31 (Newton's iteration from above)
ISqrt(n) == IF n < 2 THEN n ELSE ISqrtFrom(n, Min(n \div 2, 46340))

\* least integer whose square is >= n, for n >= 0
CeilSqrt(n) == IF ISqrt(n) * ISqrt(n) = n THEN ISqrt(n) ELSE ISqrt(n) + 1

(***************************************************************************)
(* kurbo::Point / kurbo::Vec2 on the grid.                                 *)
(***************************************************************************)
Origin == <<0, 0>>

VAdd(a, b) == <<a[1] + b[1], a[2] + b[2]>>

VSub(a, b) == <<a[1] - b[1], a[2] - b[2]>>

VNeg(a) == <<-a[1], -a[2]>>

VCross(a, b) == a[1] * b[2] - a[2] * b[1]

VDot(a, b) == a[1] * b[1] + a[2] * b[2]

VHypot2(a) == a[1] * a[1] + a[2] * a[2]

VHypot(a) == ISqrt(VHypot2(a))

\* a * num / den, rounded componentwise (den # 0)
VScale(a, num, den) ==
    LET g == Gcd(num, den)
    IN  <<RDiv(a[1] * (num \div g), den \div g), RDiv(a[2] * (num \div g), den \div g)>>

(***************************************************************************)
(* Angles in milliradians, sines and cosines in thousandths.               *)
(***************************************************************************)
\* std::f64::consts::PI in milliradians
Pi == 3142

\* atan(a / b) for 0 <= a <= b, b > 0
AtanRatio(a, b) ==
    LET z == (1000 * a) \div b
    IN  (z * (785 + (273 * (1000 - z)) \div 1000)) \div 1000

\* f64::atan2(y, x), in (-Pi, Pi]
Atan2(y, x) ==
    LET ax == Abs(x)
        ay == Abs(y)
        a == IF ax = 0 /\ ay = 0 THEN 0
             ELSE IF ay <= ax THEN AtanRatio(ay, ax)
             ELSE Pi \div 2 - AtanRatio(ax, ay)
        b == IF x < 0 THEN Pi - a ELSE a
    IN  IF y < 0 THEN -b ELSE b

\* sin of an angle in [0, Pi] (Bhaskara's rational approximation)
SinPos(x) ==
    LET q == x * (Pi - x)
    IN  (800 * q) \div ((5 * Pi * Pi - 4 * q) \div 20)

\* f64::sin for an angle in [-Pi, Pi]
Sin(x) == IF x < 0 THEN -SinPos(Min(-x, Pi)) ELSE SinPos(Min(x, Pi))

\* f64::cos for an angle in [-Pi, Pi]
Cos(x) ==
    LET ax == Min(Abs(x), Pi)
    IN  IF ax <= Pi \div 2 THEN SinPos(ax + Pi \div 2)
        ELSE -SinPos(ax - Pi \div 2)

(***************************************************************************)
(* Output primitives.  A primitive is [p0, p1, k0]: a kurbo::Line has      *)
(* k0 = 0, an ArcSegment carries its signed turning angle k0.  L is the    *)
(* Lowering backend, "Line" or "Arc".                                      *)
(***************************************************************************)
Backends == {"Line", "Arc"}

\* ArcSegment::new
ArcSegment_new(p0, p1, k0) == [p0 |-> p0, p1 |-> p1, k0 |-> k0]

\* Lowering::line: Line -> Self
L_line(L, p0, p1) ==
    IF L = "Line" THEN [p0 |-> p0, p1 |-> p1, k0 |-> 0]
    ELSE ArcSegment_new(p0, p1, 0)

\* a reverse that swaps the end points and keeps the turning angle (fault
\* variant of L_reverse)
L_reverse_same_turn(L, seg) == [p0 |-> seg.p1, p1 |-> seg.p0, k0 |-> seg.k0]

\* Lowering::reverse
L_reverse(L, seg) ==
    IF L = "Line" THEN [p0 |-> seg.p1, p1 |-> seg.p0, k0 |-> 0]
    ELSE ArcSegment_new(seg.p1, seg.p0, -seg.k0)

\* Lowering::end_point
L_end_point(seg) == seg.p1

\* the grid tolerance of every stroke_undashed call of the model
Tolerance == 1

\* the number of chords with n_frac rounded down: floor(n_frac), at least 1
\* (fault variant of Line_lower_arc_n)
Line_lower_arc_n_floor(arc, tol) ==
    LET chord_len == VHypot(VSub(arc.p1, arc.p0))
        x == ((arc.k0 * arc.k0) \div 1000) * chord_len
    IN  IF x <= 8000 * tol THEN 1 ELSE ISqrt(x \div (8000 * tol))

\* the number of chords <Line as Lowering>::lower_arc cuts an arc into:
\* 1 when n_frac <= 1, else ceil(n_frac),
\* n_frac = |k0| * sqrt(0.125 * chord_len / tol)
Line_lower_arc_n(arc, tol) ==
    LET chord_len == VHypot(VSub(arc.p1, arc.p0))
        x == ((arc.k0 * arc.k0) \div 1000) * chord_len
    IN  IF x <= 8000 * tol THEN 1 ELSE CeilSqrt(CeilDiv(x, 8000 * tol))

\* the i-th interior point of <Line as Lowering>::lower_arc, 1 <= i < n
Line_lower_arc_pt(arc, n, i) ==
    LET chord == VSub(arc.p1, arc.p0)
        th == RDiv((2 * i - n) * arc.k0, 2 * n)
        Pt(s, un, vn) ==
            VAdd(arc.p0, <<RDiv(un * chord[1] - vn * chord[2], 2 * s),
                           RDiv(un * chord[2] + vn * chord[1], 2 * s)>>)
        Half(s, c) == Pt(s, Sin(th) + s, Cos(th) - c)
    IN  Half(Sin(RDiv(arc.k0, 2)), Cos(RDiv(arc.k0, 2)))

\* <Line as Lowering>::lower_arc: the lines pushed onto segs
Line_lower_arc(arc, tol) ==
    LET n == Line_lower_arc_n(arc, tol)
        Lines(pt) == [i \in 1..n |-> [p0 |-> pt[i - 1], p1 |-> pt[i], k0 |-> 0]]
    IN  Lines([i \in 0..n |-> IF i = 0 THEN arc.p0
                              ELSE IF i = n THEN arc.p1
                              ELSE Line_lower_arc_pt(arc, n, i)])

\* <ArcSegment as Lowering>::lower_arc: the arc itself
ArcSegment_lower_arc(arc, tol) == <<arc>>

\* Lowering::lower_arc
L_lower_arc(L, arc, tol) ==
    IF L = "Line" THEN Line_lower_arc(arc, tol) ELSE ArcSegment_lower_arc(arc, tol)

(***************************************************************************)
(* LoweredPath<L>: [path, last_pt].                                        *)
(***************************************************************************)
\* LoweredPath::default
LoweredPath_default == [path |-> <<>>, last_pt |-> Origin]

\* a move_to that leaves last_pt where it was (fault variant of move_to)
LoweredPath_move_to_kept(lp, p) == lp

\* LoweredPath::move_to
LoweredPath_move_to(lp, p) == [lp EXCEPT !.last_pt = p]

\* LoweredPath::line_to
LoweredPath_line_to(L, lp, p) ==
    [path |-> Append(lp.path, L_line(L, lp.last_pt, p)), last_pt |-> p]

\* the primitives of a path in reverse order, each one reversed
RevPath(L, path) ==
    [i \in 1..Len(path) |-> L_reverse(L, path[Len(path) + 1 - i])]

\* LoweredPath::extend
LoweredPath_extend(lp, other) ==
    IF other.path # <<>>
    THEN [path |-> lp.path \o other.path,
          last_pt |-> L_end_point(other.path[Len(other.path)])]
    ELSE lp

\* LoweredPath::extend_rev
LoweredPath_extend_rev(L, lp, other) ==
    IF other.path # <<>>
    THEN [path |-> lp.path \o RevPath(L, other.path),
          last_pt |-> L_end_point(L_reverse(L, other.path[1]))]
    ELSE lp


(***************************************************************************)
(* Euler spiral segments.  An EulerSeg is [p0, p1, ka, kb]: its end points *)
(* and its unit-chord curvature at t = 0 and t = 1 in thousandths, i.e.    *)
(* params.curvature(0.) and params.curvature(1.); the curvature is linear  *)
(* in t.  Parameters t are in thousandths, a range is <<start, end>>.      *)
(* The chord factor params.ch is taken as 1.                               *)
(***************************************************************************)
\* EulerParams::curvature
EulerParams_curvature(es, t) == es.ka + RDiv((es.kb - es.ka) * t, 1000)

\* EulerParams::eval_th: the tangent angle relative to the chord
EulerParams_eval_th(es, t) ==
    LET k1 == es.kb - es.ka
    IN  RDiv(es.ka * t, 1000) + RDiv(k1 * ((t * t) \div 1000), 2000)
        - (RDiv(es.ka, 2) + RDiv(k1, 6))

\* EulerSeg::eval_with_offset: the point of the parallel curve at distance
\* offset, second-order in the curvature and rounded to the grid
EulerSeg_eval_with_offset(es, t, offset) ==
    LET chord == VSub(es.p1, es.p0)
        perp == <<-chord[2], chord[1]>>
        kmean == RDiv(es.ka + es.kb, 2)
        sag == RDiv(kmean * ((t * (1000 - t)) \div 1000), 2000)
        Off(len, sn, cs) ==
            <<RDiv(offset * (chord[1] * sn - chord[2] * cs), 1000 * len),
              RDiv(offset * (chord[1] * cs + chord[2] * sn), 1000 * len)>>
        At(th) == Off(VHypot(chord), Sin(th), Cos(th))
    IN  VAdd(VAdd(VAdd(es.p0, VScale(chord, t, 1000)), VScale(perp, -sag, 1000)),
             At(Max(-Pi, Min(Pi, EulerParams_eval_th(es, t)))))

\* EulerSeg::eval_evolute: the centre of curvature at t
EulerSeg_eval_evolute(es, t) ==
    EulerSeg_eval_with_offset(es, t,
        RDiv(-1000 * VHypot(VSub(es.p1, es.p0)), EulerParams_curvature(es, t)))

\* the subdivision count of flatten_offset: ceil(n_frac * scale_multiplier),
\* at least 1, with n_frac = sqrt|k (k dist_scaled + 1)| at the mean curvature
flatten_offset_n(es, range, offset, tol) ==
    LET len == VHypot(VSub(es.p1, es.p0))
        k == RDiv(es.ka + es.kb, 2)
        n2 == CeilDiv(Abs(k * (k * offset + 1000 * len)), 8000000 * tol)
    IN  Max(1, CeilDiv(CeilSqrt(n2) * (range[2] - range[1]), 1000))

\* flatten_offset: the points handed to the callback, in order; the last one
\* is the parallel curve's point at the end of the range
flatten_offset(es, range, offset, tol) ==
    LET n == flatten_offset_n(es, range, offset, tol)
    IN  [i \in 1..n |->
            EulerSeg_eval_with_offset(es,
                IF i = n THEN range[2]
                ELSE range[1] + RDiv(i * (range[2] - range[1]), n),
                offset)]

RECURSIVE LineToAll(_, _, _)
\* path.line_to(p) for every point of pts, in order
LineToAll(L, lp, pts) ==
    IF pts = <<>> THEN lp
    ELSE LineToAll(L, LoweredPath_line_to(L, lp, Head(pts)), Tail(pts))

\* <Line as Lowering>::lower_espc
Line_lower_espc(es, path, range, dist, tol) ==
    LineToAll("Line", path, flatten_offset(es, range, dist, tol))

\* floor of the cube root of n >= 0
ICbrt(n) == CHOOSE r \in 0..1300 : r * r * r <= n /\ n < (r + 1) * (r + 1) * (r + 1)

\* the arc count of <ArcSegment as Lowering>::lower_espc:
\* max(1, ceil(cbrt(est_err) * range_size))
ArcSegment_lower_espc_n(es, range, dist, tol) ==
    LET arclen == VHypot(VSub(es.p1, es.p0))
        k1 == Abs(es.kb - es.ka)
        est_err == CeilDiv(k1 * (arclen + (4 * k1 * Abs(dist)) \div 10000), 120000 * tol)
    IN  Max(1, CeilDiv(ICbrt(Min(est_err, 2000) * 1000000) * (range[2] - range[1]), 100000))

RECURSIVE ArcChain(_, _, _, _, _, _)
\* the loop of <ArcSegment as Lowering>::lower_espc from step i on
ArcChain(es, range, dist, n, i, lp) ==
    IF i = n THEN lp
    ELSE LET range_size == range[2] - range[1]
             t0 == range[1] + RDiv(i * range_size, n)
             t1 == range[1] + RDiv((i + 1) * range_size, n)
             k == EulerParams_curvature(es, RDiv(t0 + t1, 2))
             Push(p1) ==
                 [path |-> Append(lp.path,
                                  ArcSegment_new(lp.last_pt, p1, RDiv(k * (t1 - t0), 1000))),
                  last_pt |-> p1]
         IN  ArcChain(es, range, dist, n, i + 1,
                      Push(EulerSeg_eval_with_offset(es, t1, dist)))

\* <ArcSegment as Lowering>::lower_espc
ArcSegment_lower_espc(es, path, range, dist, tol) ==
    ArcChain(es, range, dist, ArcSegment_lower_espc_n(es, range, dist, tol), 0, path)

\* Lowering::lower_espc
L_lower_espc(L, es, path, range, dist, tol) ==
    IF L = "Line" THEN Line_lower_espc(es, path, range, dist, tol)
    ELSE ArcSegment_lower_espc(es, path, range, dist, tol)

\* sqrt|0.5 (ratio + t - 0.5)| of lower_es_evolute, in thousandths:
\* ratio + t - 0.5 = curvature(t) / k1
evolute_rho(es, t) ==
    LET k1 == Abs(es.kb - es.ka)
    IN  ISqrt(RDiv(1000 * Abs(EulerParams_curvature(es, t)), 2 * k1) * 1000)

\* the subdivision count of Lowering::lower_es_evolute (default method);
\* with k1 = 0 the ratio is not finite and max(1.0) yields 1
lower_es_evolute_n(es, range, tol) ==
    IF es.kb = es.ka THEN 1
    ELSE LET arc_len == VHypot(VSub(es.p1, es.p0))
             rho_int == Abs(evolute_rho(es, range[2]) - evolute_rho(es, range[1]))
             x == (range[2] - range[1]) * rho_int
         IN  Max(1, CeilDiv(x * CeilSqrt(CeilDiv(arc_len, tol)), 1000000))

\* the parameter s of the i-th evolute sample:
\* range.start + range_size * (sign2 * u * u + 0.5 - ratio)
lower_es_evolute_s(es, range, n, i) ==
    IF es.kb = es.ka THEN range[2]
    ELSE LET k1 == es.kb - es.ka
             rho0 == evolute_rho(es, range[1])
             rho1 == evolute_rho(es, range[2])
             u == rho0 + RDiv(i * (rho1 - rho0), n)
             sgn == Sgn(es.ka + es.kb) * Sgn(k1)
             s01 == sgn * ((2 * u * u) \div 1000) - RDiv(1000 * es.ka, k1)
         IN  range[1] + RDiv((range[2] - range[1]) * Max(0, Min(1000, s01)), 1000)

\* Lowering::lower_es_evolute (the default method, used by Line): a line to
\* every evolute sample
Lowering_lower_es_evolute(L, es, path, range, tol) ==
    LET n == lower_es_evolute_n(es, range, tol)
    IN  LineToAll(L, path,
            [i \in 1..n |-> EulerSeg_eval_evolute(es, lower_es_evolute_s(es, range, n, i))])

\* cbrt(1 / (k0 + (t - 0.5) k1)) of <ArcSegment as Lowering>::lower_es_evolute,
\* in hundredths (0 stands for the cube root of 1/0)
arc_evolute_rho(es, t) ==
    LET k == EulerParams_curvature(es, t)
    IN  IF k = 0 THEN 0 ELSE Sgn(k) * ICbrt(1000000000 \div Abs(k))

\* the arc count of <ArcSegment as Lowering>::lower_es_evolute
ArcSegment_lower_es_evolute_n(es, range, tol) ==
    LET arc_len == VHypot(VSub(es.p1, es.p0))
        rho_int == Abs(arc_evolute_rho(es, range[2]) - arc_evolute_rho(es, range[1]))
        est_err == CeilDiv(rho_int * arc_len, 100 * tol)
    IN  Max(1, CeilDiv(ICbrt(Min(est_err, 2000) * 1000000) * (range[2] - range[1]), 100000))

\* the parameter s of the i-th sample there:
\* range.start + range_size * ((1 / u^3 - k0) / k1 + 0.5)
ArcSegment_lower_es_evolute_s(es, range, n, i) ==
    LET k1 == es.kb - es.ka
        Ku(u) == IF u = 0 THEN 0 ELSE Sgn(u) * (1000000000 \div Abs(u * u * u))
        S01(ku) == IF k1 = 0 \/ i = n THEN 1000 ELSE RDiv(1000 * (ku - es.ka), k1)
        S(rho0, rho1) ==
            range[1] + RDiv((range[2] - range[1])
                            * Max(0, Min(1000, S01(Ku(rho0 + RDiv(i * (rho1 - rho0), n))))),
                            1000)
    IN  S(arc_evolute_rho(es, range[1]), arc_evolute_rho(es, range[2]))

RECURSIVE ArcEvoluteChain(_, _, _, _, _, _)
\* the loop of <ArcSegment as Lowering>::lower_es_evolute from step i on;
\* lk is last_k
ArcEvoluteChain(es, range, n, i, lk, lp) ==
    IF i > n THEN lp
    ELSE LET k1 == es.kb - es.ka
             last_r == ISqrt(1000 * Abs(lk))
             Den(k) == IF k = 0 \/ lk = 0 THEN 0
                       ELSE RDiv(1000 * k1, k) - RDiv(1000 * k1, lk)
             EsK(r, den) ==
                 IF den = 0 THEN 0
                 ELSE -Sgn(es.ka + es.kb) * RDiv(4 * (r - last_r) * (r - last_r), den)
             s == ArcSegment_lower_es_evolute_s(es, range, n, i)
             k == EulerParams_curvature(es, s)
             Push(p1) ==
                 [path |-> Append(lp.path,
                                  ArcSegment_new(lp.last_pt, p1,
                                                 EsK(ISqrt(1000 * Abs(k)), Den(k)))),
                  last_pt |-> p1]
         IN  ArcEvoluteChain(es, range, n, i + 1, k, Push(EulerSeg_eval_evolute(es, s)))

\* <ArcSegment as Lowering>::lower_es_evolute
ArcSegment_lower_es_evolute(es, path, range, tol) ==
    ArcEvoluteChain(es, range, ArcSegment_lower_es_evolute_n(es, range, tol), 1,
                    EulerParams_curvature(es, range[1]), path)

\* Lowering::lower_es_evolute
L_lower_es_evolute(L, es, path, range, tol) ==
    IF L = "Line" THEN Lowering_lower_es_evolute(L, es, path, range, tol)
    ELSE ArcSegment_lower_es_evolute(es, path, range, tol)

(***************************************************************************)
(* StrokeContour<L>: [main_path, rev_parallel, evolute]; an Option is a    *)
(* sequence of length 0 (None) or 1 (Some).                                *)
(***************************************************************************)
None == <<>>

Some(x) == <<x>>

\* StrokeContour::default
StrokeContour_default ==
    [main_path |-> LoweredPath_default, rev_parallel |-> None, evolute |-> None]

\* StrokeContour::start: get_or_insert_with on both temporaries
StrokeContour_start(sc) ==
    LET fresh == LoweredPath_move_to(LoweredPath_default, sc.main_path.last_pt)
    IN  [sc EXCEPT !.evolute = IF @ = None THEN Some(fresh) ELSE @,
                   !.rev_parallel = IF @ = None THEN Some(fresh) ELSE @]

\* a finalize that splices the evolute in once only, before the reversed
\* rev_parallel (fault variant of StrokeContour_finalize)
StrokeContour_finalize_once(L, sc) ==
    IF sc.evolute # None
    THEN [main_path |->
              LoweredPath_extend_rev(L,
                  LoweredPath_extend(sc.main_path,
                      LoweredPath_line_to(L, sc.evolute[1], sc.rev_parallel[1].last_pt)),
                  sc.rev_parallel[1]),
          rev_parallel |-> None, evolute |-> None]
    ELSE sc

\* StrokeContour::finalize
StrokeContour_finalize(L, sc) ==
    IF sc.evolute # None
    THEN LET last_pt == sc.rev_parallel[1].last_pt
             Splice(evolute) ==
                 LoweredPath_extend(
                     LoweredPath_extend_rev(L, LoweredPath_extend(sc.main_path, evolute),
                                            sc.rev_parallel[1]),
                     evolute)
         IN  [main_path |-> Splice(LoweredPath_line_to(L, sc.evolute[1], last_pt)),
              rev_parallel |-> None, evolute |-> None]
    ELSE sc

\* StrokeContour::move_to
StrokeContour_move_to(L, sc, p) ==
    LET f == StrokeContour_finalize(L, sc)
    IN  [f EXCEPT !.main_path = LoweredPath_move_to(@, p)]

\* StrokeContour::line_to
StrokeContour_line_to(L, sc, p) ==
    LET f == StrokeContour_finalize(L, sc)
    IN  [f EXCEPT !.main_path = LoweredPath_line_to(L, @, p)]

\* StrokeContour::is_empty
StrokeContour_is_empty(sc) == sc.main_path.path = <<>>

\* a piece whose evolute never begins with the line to es.eval_evolute(0.)
\* (fault variant of EulerPiece)
EulerPieceUnled(L, s, es, h, tolerance, range, cusp, lead) ==
    IF cusp
    THEN [s EXCEPT
            !.evolute = Some(L_lower_es_evolute(L, es, @[1], range, tolerance)),
            !.rev_parallel = Some(L_lower_espc(L, es, @[1], range, h, tolerance))]
    ELSE [s EXCEPT !.main_path = L_lower_espc(L, es, @, range, h, tolerance)]

\* one side of the cusp in StrokeContour::do_euler_seg, over range, on a
\* contour s that has been finalized (cusp = FALSE) or started (cusp = TRUE).
\* Where the offset curve runs forward: lower_espc onto main_path.  Where it
\* runs backward: lower_es_evolute onto evolute and lower_espc onto
\* rev_parallel; the backward piece that begins the segment (lead) first
\* draws a line to es.eval_evolute(0.).
EulerPiece(L, s, es, h, tolerance, range, cusp, lead) ==
    IF cusp
    THEN [s EXCEPT
            !.evolute =
                Some(L_lower_es_evolute(L, es,
                        IF lead
                        THEN LoweredPath_line_to(L, @[1], EulerSeg_eval_evolute(es, 0))
                        ELSE @[1],
                        range, tolerance)),
            !.rev_parallel = Some(L_lower_espc(L, es, @[1], range, h, tolerance))]
    ELSE [s EXCEPT !.main_path = L_lower_espc(L, es, @, range, h, tolerance)]

\* the pieces of StrokeContour::do_euler_seg from pieces[i] on; a piece is
\* [range, cusp, lead]
RECURSIVE EulerPieces(_, _, _, _, _, _, _)
EulerPieces(L, sc, es, h, tolerance, pieces, i) ==
    IF i > Len(pieces) THEN sc
    ELSE EulerPieces(L,
            EulerPiece(L,
                IF pieces[i].cusp THEN StrokeContour_start(sc)
                ELSE StrokeContour_finalize(L, sc),
                es, h, tolerance, pieces[i].range, pieces[i].cusp, pieces[i].lead),
            es, h, tolerance, pieces, i + 1)

\* do_euler_seg without cusp handling: the whole range goes onto main_path
\* (fault variant of do_euler_seg)
do_euler_seg_no_cusp(L, sc, es, h, tolerance) ==
    [StrokeContour_finalize(L, sc) EXCEPT
        !.main_path = L_lower_espc(L, es, @, <<0, 1000>>, h, tolerance)]

\* StrokeContour::do_euler_seg
do_euler_seg(L, sc, es, h, tolerance) ==
    LET chord_len == VHypot(VSub(es.p1, es.p0))
        cusp0 == EulerParams_curvature(es, 0) * h + 1000 * chord_len
        cusp1 == EulerParams_curvature(es, 1000) * h + 1000 * chord_len
        t == IF Sgn(cusp0) * Sgn(cusp1) >= 0 THEN 1000
             ELSE RDiv(1000 * cusp0, cusp0 - cusp1)
        first == [range |-> <<0, t>>, cusp |-> cusp0 < 0, lead |-> cusp0 < 0]
        second == [range |-> <<t, 1000>>, cusp |-> cusp0 >= 0, lead |-> FALSE]
    IN  EulerPieces(L, sc, es, h, tolerance,
                    IF t < 1000 THEN <<first, second>> ELSE <<first>>, 1)

(***************************************************************************)
(* Caps and joins (free functions of stroke.rs).                           *)
(***************************************************************************)
\* round_join: an arc from out.last_pt to center - norm, lowered by L
round_join(L, out, tolerance, center, norm, angle) ==
    LET p1 == VSub(center, norm)
        arc == ArcSegment_new(out.last_pt, p1, -angle)
    IN  [path |-> out.path \o L_lower_arc(L, arc, tolerance), last_pt |-> p1]

\* round_cap
round_cap(L, out, tolerance, center, norm) ==
    round_join(L, out, tolerance, center, norm, Pi)

\* square_cap: the affine map [norm.x, norm.y, -norm.y, norm.x, center] of
\* (1, 1) and (-1, 1), then center - norm
square_cap(L, out, center, norm) ==
    LET a == <<norm[1] - norm[2] + center[1], norm[2] + norm[1] + center[2]>>
        b == <<-norm[1] - norm[2] + center[1], -norm[2] + norm[1] + center[2]>>
    IN  LoweredPath_line_to(L,
            LoweredPath_line_to(L, LoweredPath_line_to(L, out, a), b),
            VSub(center, norm))

\* pathseg_tangents for a cubic <<p0, p1, p2, p3>>; on the grid a squared
\* length exceeds EPS = 1e-12 exactly when it is not zero
pathseg_tangents_cubic(c) ==
    LET d01 == VSub(c[2], c[1])
        d02 == VSub(c[3], c[1])
        d23 == VSub(c[4], c[3])
        d13 == VSub(c[4], c[2])
        d03 == VSub(c[4], c[1])
        d0 == IF VHypot2(d01) > 0 THEN d01 ELSE IF VHypot2(d02) > 0 THEN d02 ELSE d03
        d1 == IF VHypot2(d23) > 0 THEN d23 ELSE IF VHypot2(d13) > 0 THEN d13 ELSE d03
    IN  <<d0, d1>>

\* pathseg_tangents for a quadratic <<p0, p1, p2>>
pathseg_tangents_quad(q) ==
    LET d01 == VSub(q[2], q[1])
        d12 == VSub(q[3], q[2])
        d02 == VSub(q[3], q[1])
    IN  <<IF VHypot2(d01) > 0 THEN d01 ELSE d02, IF VHypot2(d12) > 0 THEN d12 ELSE d02>>

\* kurbo QuadBez::raise: the same curve as a cubic
QuadBez_raise(q) ==
    <<q[1], VAdd(q[1], VScale(VSub(q[2], q[1]), 2, 3)),
      VAdd(q[3], VScale(VSub(q[2], q[3]), 2, 3)), q[3]>>

(***************************************************************************)
(* StrokeCtx<L>: [output, forward_path, backward_path, start_pt,           *)
(* start_norm, start_tan, last_pt, last_tan, tolerance].  A style is       *)
(* [width, start_cap, end_cap, join, miter_limit] (kurbo::Stroke).         *)
(***************************************************************************)
\* the normal scaled by the full width, scale = style.width / tan.hypot()
\* (fault variant of StrokeNorm)
StrokeNormFullWidth(style, tan) == VScale(<<-tan[2], tan[1]>>, style.width, VHypot(tan))

\* the half-width normal of a tangent: scale * Vec2::new(-tan.y, tan.x),
\* scale = 0.5 * style.width / tan.hypot()
StrokeNorm(style, tan) == VScale(<<-tan[2], tan[1]>>, style.width, 2 * VHypot(tan))

\* the join threshold test of do_join: dot <= 0 || |cross| >= hypot * join_thresh,
\* join_thresh = 2 * tolerance / style.width
JoinNeeded(ctx, style, cross, dot) ==
    \/ dot <= 0
    \/ Abs(cross) * style.width >= ISqrt(cross * cross + dot * dot) * 2 * ctx.tolerance

\* the miter-limit test with the sign of dot slipped:
\* 2 * hypot < (hypot - dot) * miter_limit^2 (fault variant of MiterOk)
MiterOkSignSlip(style, cross, dot) ==
    LET hypot == ISqrt(cross * cross + dot * dot)
    IN  2 * hypot < (hypot - dot) * style.miter_limit * style.miter_limit

\* the miter-limit test: 2 * hypot < (hypot + dot) * miter_limit^2
MiterOk(style, cross, dot) ==
    LET hypot == ISqrt(cross * cross + dot * dot)
    IN  2 * hypot < (hypot + dot) * style.miter_limit * style.miter_limit

\* the Join::Bevel arm of do_join
JoinBevel(L, ctx, p0, norm) ==
    [ctx EXCEPT !.forward_path = StrokeContour_line_to(L, @, VSub(p0, norm)),
                !.backward_path = StrokeContour_line_to(L, @, VAdd(p0, norm))]

\* the miter vertex of the Join::Miter arm, on the outer side of the turn
JoinMiterVertex(L, ctx, style, p0, norm, ab, cd, cross) ==
    LET side == IF cross > 0 THEN -1 ELSE 1
        Miter(fp_last, fp_this) ==
            VSub(fp_this, VScale(cd, VCross(ab, VSub(fp_this, fp_last)), cross))
        Vertex(miter_pt) ==
            IF cross > 0
            THEN [ctx EXCEPT !.forward_path = StrokeContour_line_to(L, @, miter_pt)]
            ELSE IF cross < 0
            THEN [ctx EXCEPT !.backward_path = StrokeContour_line_to(L, @, miter_pt)]
            ELSE ctx
    IN  Vertex(Miter(VAdd(p0, VScale(StrokeNorm(style, ab), side, 1)),
                     VAdd(p0, VScale(norm, side, 1))))

\* the Join::Miter arm of do_join
JoinMiter(L, ctx, style, p0, norm, ab, cd, cross, dot) ==
    JoinBevel(L,
        IF MiterOk(style, cross, dot)
        THEN JoinMiterVertex(L, ctx, style, p0, norm, ab, cd, cross)
        ELSE ctx,
        p0, norm)

\* the Join::Round arm of do_join
JoinRound(L, ctx, p0, norm, cross, dot) ==
    LET angle == Atan2(cross, dot)
    IN  IF angle > 0
        THEN [ctx EXCEPT
                !.backward_path = StrokeContour_line_to(L, @, VAdd(p0, norm)),
                !.forward_path.main_path = round_join(L, @, ctx.tolerance, p0, norm, angle)]
        ELSE [ctx EXCEPT
                !.forward_path = StrokeContour_line_to(L, @, VSub(p0, norm)),
                !.backward_path.main_path =
                    round_join(L, @, ctx.tolerance, p0, VNeg(norm), angle)]

\* StrokeCtx::do_join
do_join(L, ctx, style, tan0) ==
    LET norm == StrokeNorm(style, tan0)
        p0 == ctx.last_pt
        ab == ctx.last_tan
        cd == tan0
        cross == VCross(ab, cd)
        dot == VDot(ab, cd)
    IN  IF StrokeContour_is_empty(ctx.forward_path)
        THEN [ctx EXCEPT
                !.forward_path = StrokeContour_move_to(L, @, VSub(p0, norm)),
                !.backward_path = StrokeContour_move_to(L, @, VAdd(p0, norm)),
                !.start_tan = tan0,
                !.start_norm = norm]
        ELSE IF JoinNeeded(ctx, style, cross, dot)
        THEN CASE style.join = "Bevel" -> JoinBevel(L, ctx, p0, norm)
               [] style.join = "Miter" -> JoinMiter(L, ctx, style, p0, norm, ab, cd, cross, dot)
               [] style.join = "Round" -> JoinRound(L, ctx, p0, norm, cross, dot)
        ELSE ctx

\* StrokeCtx::do_line
do_line(L, ctx, style, tangent, p1) ==
    LET norm == StrokeNorm(style, tangent)
    IN  [ctx EXCEPT !.forward_path = StrokeContour_line_to(L, @, VSub(p1, norm)),
                    !.backward_path = StrokeContour_line_to(L, @, VAdd(p1, norm)),
                    !.last_pt = p1]

\* the cap arms of finish
Cap(L, out, tolerance, cap, center, norm) ==
    CASE cap = "Butt" -> LoweredPath_line_to(L, out, VSub(center, norm))
      [] cap = "Round" -> round_cap(L, out, tolerance, center, norm)
      [] cap = "Square" -> square_cap(L, out, center, norm)

\* main_path.path.clear() on both contours
ClearMainPaths(ctx) ==
    [ctx EXCEPT !.forward_path.main_path.path = <<>>,
                !.backward_path.main_path.path = <<>>]

\* finish without the return on an empty forward main_path
finish_always(L, ctx, style) ==
    LET return_p == IF ctx.backward_path.rev_parallel # None
                    THEN ctx.backward_path.rev_parallel[1].last_pt
                    ELSE ctx.backward_path.main_path.last_pt
        d == VSub(ctx.last_pt, return_p)
        fwd == StrokeContour_finalize(L, ctx.forward_path)
        bwd == StrokeContour_finalize(L, ctx.backward_path)
    IN  ClearMainPaths(
            [ctx EXCEPT
               !.output =
                   Cap(L,
                       LoweredPath_extend_rev(L,
                           Cap(L, LoweredPath_extend(@, fwd.main_path),
                               ctx.tolerance, style.end_cap, ctx.last_pt, d),
                           bwd.main_path),
                       ctx.tolerance, style.start_cap, ctx.start_pt, ctx.start_norm),
               !.forward_path = fwd,
               !.backward_path = bwd])

\* StrokeCtx::finish
finish(L, ctx, style) ==
    IF ctx.forward_path.main_path.path = <<>> THEN ctx
    ELSE LET return_p == IF ctx.backward_path.rev_parallel # None
                         THEN ctx.backward_path.rev_parallel[1].last_pt
                         ELSE ctx.backward_path.main_path.last_pt
             d == VSub(ctx.last_pt, return_p)
             fwd == StrokeContour_finalize(L, ctx.forward_path)
             bwd == StrokeContour_finalize(L, ctx.backward_path)
         IN  ClearMainPaths(
                 [ctx EXCEPT
                    !.output =
                        Cap(L,
                            LoweredPath_extend_rev(L,
                                Cap(L, LoweredPath_extend(@, fwd.main_path),
                                    ctx.tolerance, style.end_cap, ctx.last_pt, d),
                                bwd.main_path),
                            ctx.tolerance, style.start_cap, ctx.start_pt, ctx.start_norm),
                    !.forward_path = fwd,
                    !.backward_path = bwd])

\* finish_closed after its do_join, which has left the context j
FlushClosed(L, j) ==
    LET fwd == StrokeContour_finalize(L, j.forward_path)
        bwd == StrokeContour_finalize(L, j.backward_path)
    IN  ClearMainPaths(
            [j EXCEPT
                !.output = LoweredPath_extend_rev(L,
                               LoweredPath_extend(@, fwd.main_path), bwd.main_path),
                !.forward_path = fwd,
                !.backward_path = bwd])

\* finish_closed that ends the contours as finish does, caps included
finish_closed_capped(L, ctx, style) ==
    IF ctx.forward_path.main_path.path = <<>> THEN ctx
    ELSE finish(L, do_join(L, ctx, style, ctx.start_tan), style)

\* StrokeCtx::finish_closed
finish_closed(L, ctx, style) ==
    IF ctx.forward_path.main_path.path = <<>> THEN ctx
    ELSE FlushClosed(L, do_join(L, ctx, style, ctx.start_tan))


(***************************************************************************)
(* Cubics.  A cubic is <<p0, p1, p2, p3>>.  A parameter t is a fraction    *)
(* <<n, d>> with d > 0.                                                    *)
(***************************************************************************)
\* the fraction n / d with a positive denominator, in lowest terms
Frac(n, d) ==
    LET g == Gcd(n, d)
    IN  <<Sgn(d) * (n \div g), Abs(d) \div g>>

FracLess(a, b) == a[1] * b[2] < b[1] * a[2]

\* a + (b - a) * t
Lerp(a, b, t) == a + RDiv((b - a) * t[1], t[2])

VLerp(a, b, t) == <<Lerp(a[1], b[1], t), Lerp(a[2], b[2], t)>>

\* the value at t of the 1-D cubic with control values p (de Casteljau):
\* mt * (mt * mt * p[0] + 3 t (mt * p[1] + t * p[2])) + t^3 * p[3]
Bezier1D(p, t) ==
    LET a == Lerp(p[1], p[2], t)
        b == Lerp(p[2], p[3], t)
        c == Lerp(p[3], p[4], t)
    IN  Lerp(Lerp(a, b, t), Lerp(b, c, t), t)

\* CubicBez::eval
CubicBez_eval(c, t) ==
    <<Bezier1D(<<c[1][1], c[2][1], c[3][1], c[4][1]>>, t),
      Bezier1D(<<c[1][2], c[2][2], c[3][2], c[4][2]>>, t)>>

\* kurbo solve_quadratic(c0, c1, c2): the real roots of c0 + c1 x + c2 x^2
\* in increasing order; a linear equation when c2 = 0, the root 0 for the
\* zero polynomial, one root for a zero discriminant.  The coefficients are
\* first divided by their common divisor, which leaves the roots alone, and
\* coefficients beyond 1000 are rounded to three digits.
solve_quadratic(c0, c1, c2) ==
    LET Sorted(x, y) == IF FracLess(x, y) THEN <<x, y>> ELSE <<y, x>>
        \* the two roots (-a1 -+ r / m) / (2 a2), r = sqrt(m * m * arg)
        Pair(a1, a2, m, r) ==
            Sorted(Frac(-m * a1 - r, 2 * m * a2), Frac(-m * a1 + r, 2 * m * a2))
        Two(a1, a2, arg, root) ==
            IF root * root = arg THEN Pair(a1, a2, 1, root)
            ELSE Pair(a1, a2, 16, ISqrt(256 * arg))
        Roots(a0, a1, a2, arg) ==
            IF a2 = 0
            THEN IF a1 # 0 THEN <<Frac(-a0, a1)>>
                 ELSE IF a0 = 0 THEN <<Frac(0, 1)>> ELSE <<>>
            ELSE IF arg < 0 THEN <<>>
            ELSE IF arg = 0 THEN <<Frac(-a1, 2 * a2)>>
            ELSE Two(a1, a2, arg, ISqrt(arg))
        Disc(a0, a1, a2) == Roots(a0, a1, a2, a1 * a1 - 4 * a0 * a2)
        Scaled(g, s) ==
            Disc(IF s <= 1 THEN c0 \div g ELSE RDiv(c0 \div g, s),
                 IF s <= 1 THEN c1 \div g ELSE RDiv(c1 \div g, s),
                 IF s <= 1 THEN c2 \div g ELSE RDiv(c2 \div g, s))
        Norm(g) == Scaled(g, CeilDiv(Max(Abs(c0), Max(Abs(c1), Abs(c2))) \div g, 1000))
    IN  Norm(Max(1, Gcd(c0, Gcd(c1, c2))))

\* the tests of do_cubic that send a cubic to do_linear.  chord_ref is the
\* chord or the longer control arm; p are the projections on chord_ref.
CubicChordRef(c) ==
    LET chord == VSub(c[4], c[1])
        d01 == VSub(c[2], c[1])
        d23 == VSub(c[4], c[3])
        r1 == IF VHypot2(d01) > VHypot2(chord) THEN d01 ELSE chord
    IN  IF VHypot2(d23) > VHypot2(r1) THEN d23 ELSE r1

CubicProj(c) ==
    LET chord_ref == CubicChordRef(c)
    IN  [i \in 1..4 |-> VDot(c[i], chord_ref)]

\* the cusp test without its two ENDPOINT_D clauses: p3 <= p0 || p1 > p2
\* (fault variant of PotentialCusp)
PotentialCuspInterior(c) ==
    LET Test(p) == p[4] <= p[1] \/ p[2] > p[3]
    IN  Test(CubicProj(c))

\* p3 <= p0 || p1 > p2 || p1 < p0 + ENDPOINT_D (p3 - p0) || p2 > p3 - ENDPOINT_D (p3 - p0)
\* with ENDPOINT_D = 0.01
PotentialCusp(c) ==
    LET Test(p) ==
            \/ p[4] <= p[1]
            \/ p[2] > p[3]
            \/ 100 * p[2] < 100 * p[1] + (p[4] - p[1])
            \/ 100 * p[3] > 100 * p[4] - (p[4] - p[1])
    IN  Test(CubicProj(c))

\* x01^2 < thresh && x23^2 < thresh && x03^2 < thresh,
\* thresh = tolerance^2 * chord_ref_hypot2
NearlyColinear(c, tolerance) ==
    LET Test(x01, x23, x03, thresh) ==
            x01 * x01 < thresh /\ x23 * x23 < thresh /\ x03 * x03 < thresh
        Cross(chord_ref) ==
            Test(VCross(VSub(c[2], c[1]), chord_ref),
                 VCross(VSub(c[4], c[3]), chord_ref),
                 VCross(VSub(c[4], c[1]), chord_ref),
                 tolerance * tolerance * VHypot2(chord_ref))
    IN  Cross(CubicChordRef(c))

IsLinearCubic(c, tolerance) == PotentialCusp(c) /\ NearlyColinear(c, tolerance)

\* ref_pt + z * ref_vec of do_linear: ref_vec = chord_ref / chord_ref_hypot2,
\* ref_pt = midpoint - 0.5 * (p0 + p3) * ref_vec
RefMap(c, z) ==
    LET midpoint == VScale(VAdd(c[1], c[4]), 1, 2)
        Map(chord_ref, p) ==
            VAdd(midpoint, VScale(chord_ref, 2 * z - (p[1] + p[4]), 2 * VHypot2(chord_ref)))
    IN  Map(CubicChordRef(c), CubicProj(c))

\* one join and line of do_linear: tan = p - last_pt; do_join; do_line;
\* last_tan = tan
LinearTo(L, ctx, style, p) ==
    LET tan == VSub(p, ctx.last_pt)
    IN  [do_line(L, do_join(L, ctx, style, tan), style, tan, p) EXCEPT !.last_tan = tan]

\* the loop of do_linear over the roots: a cusp strictly inside (EPSILON, 1 -
\* EPSILON) gets a join and a line; a fraction with a denominator below 10^6
\* is inside exactly when it is strictly between 0 and 1
RECURSIVE LinearCusps(_, _, _, _, _)
LinearCusps(L, ctx, style, c, roots) ==
    IF roots = <<>> THEN ctx
    ELSE LET t == Head(roots)
             inside == t[1] > 0 /\ t[1] < t[2]
             pt == RefMap(c, Bezier1D(CubicProj(c), t))
         IN  LinearCusps(L, IF inside THEN LinearTo(L, ctx, style, pt) ELSE ctx,
                         style, c, Tail(roots))

\* do_linear with the joins of the caller's style (fault variant of do_linear)
do_linear_caller_join(L, ctx, style0, c) ==
    LET tans == pathseg_tangents_cubic(c)
        p == CubicProj(c)
        c0 == p[2] - p[1]
        c1 == 2 * p[3] - 4 * p[2] + 2 * p[1]
        c2 == p[4] - 3 * p[3] + 3 * p[2] - p[1]
    IN  do_join(L,
            LinearTo(L,
                LinearCusps(L, [ctx EXCEPT !.last_tan = tans[1]], style0, c,
                            solve_quadratic(c0, c1, c2)),
                style0, c[4]),
            style0, tans[2])

\* StrokeCtx::do_linear
do_linear(L, ctx, style0, c) ==
    LET style == [style0 EXCEPT !.join = "Round", !.start_cap = "Round",
                                !.end_cap = "Round", !.miter_limit = 4]
        tans == pathseg_tangents_cubic(c)
        p == CubicProj(c)
        c0 == p[2] - p[1]
        c1 == 2 * p[3] - 4 * p[2] + 2 * p[1]
        c2 == p[4] - 3 * p[3] + 3 * p[2] - p[1]
    IN  do_join(L,
            LinearTo(L,
                LinearCusps(L, [ctx EXCEPT !.last_tan = tans[1]], style, c,
                            solve_quadratic(c0, c1, c2)),
                style, c[4]),
            style, tans[2])


(***************************************************************************)
(* The Euler segments CubicToEulerIter hands to do_cubic.  The fitter      *)
(* itself is modelled below (FitNext); here its result is an input: the    *)
(* number n of segments and the unit-chord curvature at the two ends of    *)
(* the curve, in thousandths.  The n segments are the ones the             *)
(* fitter yields when it halves the first interval n - 1 times:            *)
(* [0, 2^-(n-1)], [2^-(n-1), 2^-(n-2)], ..., [1/2, 1].                     *)
(***************************************************************************)
\* end curvatures of the fitted curves: gentle; a quarter turn; a quarter
\* turn that unwinds through an inflection
CurvatureProfiles == {<<200, 200>>, <<1600, 1600>>, <<1600, -1600>>}

\* the i-th break of the fit with n segments, 0 <= i <= n
FitBreak(n, i) == IF i = 0 THEN <<0, 1>> ELSE <<1, 2 ^ (n - i)>>

\* the EulerSeg of the i-th interval: es.p0 is the previous end point
\* (last_p), es.p1 = c.eval(t1)
FitSeg(c, n, prof, i) ==
    [p0 |-> CubicBez_eval(c, FitBreak(n, i - 1)),
     p1 |-> CubicBez_eval(c, FitBreak(n, i)),
     ka |-> Lerp(prof[1], prof[2], FitBreak(n, i - 1)),
     kb |-> Lerp(prof[1], prof[2], FitBreak(n, i))]

EulerFits(c) ==
    {[i \in 1..n |-> FitSeg(c, n, prof, i)] : n \in 1..MaxSegs, prof \in CurvatureProfiles}

\* the body of the for loop of do_cubic, for the segments of fit from i on
RECURSIVE EulerSegs(_, _, _, _, _)
EulerSegs(L, ctx, style, fit, i) ==
    IF i > Len(fit) THEN ctx
    ELSE LET \* side -1 is forward_path, offset -0.5 * style.width; side 1 is
             \* backward_path, offset 0.5 * style.width
             Put(sides) ==
                 [ctx EXCEPT !.forward_path = sides[-1], !.backward_path = sides[1]]
         IN  EulerSegs(L,
                 Put([side \in {-1, 1} |->
                        do_euler_seg(L,
                            IF side = -1 THEN ctx.forward_path ELSE ctx.backward_path,
                            fit[i], side * (style.width \div 2), ctx.tolerance)]),
                 style, fit, i + 1)

\* StrokeCtx::do_cubic
do_cubic(L, ctx, style, c, fit) ==
    IF IsLinearCubic(c, ctx.tolerance)
    THEN do_linear(L, ctx, style, c)
    ELSE [EulerSegs(L, ctx, style, fit, 1) EXCEPT !.last_pt = c[4]]

(***************************************************************************)
(* CubicToEulerIter (euler.rs).  The iterator is [c, tolerance, t0, e,     *)
(* last_p, last_q, last_t]:                                                *)
(*   t0      the u64 field, kept as [m, s] with value m * 2^s, m odd or 0; *)
(*   e       the f64 field dt = 2^-e; e = DtZero stands for dt = 0.0, the  *)
(*           value below the smallest subnormal 2^-1074;                   *)
(*   last_q  the direction of the derivative at last_t;                    *)
(*   last_t  [t, nudged]: the parameter t, less DERIV_EPS when nudged.     *)
(* The estimated error of a candidate is an input of the model unless the  *)
(* formulas of from_points_derivs and est_euler_err make it not a number.  *)
(***************************************************************************)
\* the exponent at which dt *= 0.5 has rounded to 0.0
DtZero == 1075

\* the width of the field t0: u64
T0Bits == 64

\* subdivision depth up to which est_err may exceed the tolerance for a
\* candidate whose error is a number
MaxFitDepth == 2

\* depth below which a step dt no longer moves a point of the grid
DtGrid == 4

\* the tolerance handed to CubicToEulerIter::new
FitTol == 1

RECURSIVE BitLen(_)
\* number of binary digits of m >= 0
BitLen(m) == IF m = 0 THEN 0 ELSE 1 + BitLen(m \div 2)

RECURSIVE TrailingZeros(_)
\* u64::trailing_zeros for 0 < v
TrailingZeros(v) == IF v % 2 = 1 THEN 0 ELSE 1 + TrailingZeros(v \div 2)

\* the value of a small t0
U64Val(t0) == t0.m * 2 ^ t0.s

\* self.t0 *= 2 overflows u64
U64DoubleOverflows(t0) == BitLen(t0.m) + t0.s + 1 > T0Bits

\* self.t0 * 2 modulo 2^64 (a wrapping multiplication drops the top bit)
U64Double(t0) ==
    IF t0.m = 0 THEN t0
    ELSE IF ~U64DoubleOverflows(t0) THEN [m |-> t0.m, s |-> t0.s + 1]
    ELSE LET r == t0.m - 2 ^ (BitLen(t0.m) - 1)
         IN  IF r = 0 THEN [m |-> 0, s |-> 0]
             ELSE [m |-> r \div 2 ^ TrailingZeros(r),
                   s |-> t0.s + 1 + TrailingZeros(r)]

\* the direction of the second value of eval_and_deriv(c, t):
\* (p1 - p0) mm + (p2 - p1) 2 mt + (p3 - p2) tt, times the square of the
\* denominator of t
DerivAt(c, t) ==
    LET m == t[2] - t[1]
        a == VSub(c[2], c[1])
        b == VSub(c[3], c[2])
        d == VSub(c[4], c[3])
    IN  <<a[1] * m * m + 2 * b[1] * m * t[1] + d[1] * t[1] * t[1],
          a[2] * m * m + 2 * b[2] * m * t[1] + d[2] * t[1] * t[1]>>

\* the direction of the derivative DERIV_EPS before t, where it vanishes at t
DerivBefore(c, t) ==
    LET a == VSub(VSub(c[3], c[2]), VSub(c[2], c[1]))
        b == VSub(VSub(c[4], c[3]), VSub(c[3], c[2]))
    IN  VNeg(<<a[1] * (t[2] - t[1]) + b[1] * t[1], a[2] * (t[2] - t[1]) + b[2] * t[1]>>)

\* CubicToEulerIter::new
CubicToEulerIter_new(c, tolerance) ==
    LET d01 == VSub(c[2], c[1])
    IN  [c |-> c, tolerance |-> tolerance,
         t0 |-> [m |-> 0, s |-> 0], e |-> 0,
         last_p |-> c[1],
         last_q |-> IF VHypot2(d01) = 0 THEN VNeg(DerivBefore(c, <<0, 1>>)) ELSE d01,
         last_t |-> [t |-> <<0, 1>>, nudged |-> FALSE]]

\* (self.t0 as f64) * self.dt == 1.0
AtEnd(it) == it.t0.m = 1 /\ it.t0.s = it.e

\* t0 + self.dt for the local t0 = n / 2^ec; a dt below the grid is absorbed
CandT1(t0f, e) ==
    IF e <= DtGrid THEN Frac(t0f.n * 2 ^ (e - t0f.ec) + 1, 2 ^ e)
    ELSE Frac(t0f.n, 2 ^ t0f.ec)

\* the candidate of one pass of the loop of next, before its error is known:
\* t1, p1, q1 with the nudge by DERIV_EPS where the derivative vanishes
Candidate(it, t1) ==
    LET flat == VHypot2(DerivAt(it.c, t1)) = 0
    IN  [t1 |-> [t |-> t1, nudged |-> flat /\ FracLess(t1, <<1, 1>>)],
         p1 |-> CubicBez_eval(it.c, t1),
         q1 |-> IF flat THEN DerivBefore(it.c, t1) ELSE DerivAt(it.c, t1),
         p0 |-> it.last_p,
         q0 |-> it.last_q]

\* th = atan2 of a derivative against the chord is +-pi, or not defined
Reversed(q, chord) == VCross(q, chord) = 0 /\ VDot(q, chord) < 0

\* est_euler_err * chord is not a number: the chord is zero (scale is not
\* finite) or th0 or th1 is pi (e0 or e1 = (2/3) / (1 + cos th) is not finite)
ErrNotANumber(cand) ==
    LET chord == VSub(cand.p1, cand.p0)
    IN  VHypot2(chord) = 0 \/ Reversed(cand.q0, chord) \/ Reversed(cand.q1, chord)

\* an f64 that matters only as a number or not: NaN, or Num(v)
NaN == <<>>

Num(v) == <<v>>

\* the values est_err * chord may take for the candidate
CandErrs(it, cand) ==
    IF ErrNotANumber(cand) THEN {NaN}
    ELSE {Num(0), Num(it.tolerance)}
         \cup (IF it.e < MaxFitDepth THEN {Num(it.tolerance + 1)} ELSE {})

\* !(err > self.tolerance): true for NaN (fault variant of ErrLeq)
ErrNotGreater(err, tolerance) == err = NaN \/ err[1] <= tolerance

\* err <= self.tolerance in f64: false for NaN
ErrLeq(err, tolerance) == err # NaN /\ err[1] <= tolerance


(***************************************************************************)
(* State.  Four programs are modelled, each with its own specification:    *)
(* stroke_undashed (Spec), CubicToEulerIter (FitSpec),                     *)
(* EulerParams::from_angles (SolveSpec) and flatten_offset (FlatSpec).  A  *)
(* specification leaves the variables of the other three at their initial  *)
(* values.                                                                 *)
(***************************************************************************)
VARIABLES
    \* stroke_undashed
    ctx,        \* the StrokeCtx
    style,      \* the kurbo::Stroke argument
    backend,    \* the type parameter L
    path,       \* the path elements consumed so far
    mark,       \* Len(ctx.output.path) before the latest finish / finish_closed
    flush,      \* which of them ran last: "none", "open" or "closed"
    pc,         \* "run" inside the for loop, "done" after the return
    \* CubicToEulerIter
    iter,       \* the iterator
    fpc,        \* "idle" between calls of next, "loop" at the head of its loop,
                \* "test" at `if err <= self.tolerance`, "none" after None,
                \* "panicked" after a panic
    t0f,        \* the local t0 of next: [n, ec] for n / 2^ec
    cand,       \* the candidate of the current pass and its err
    segs,       \* the segments returned so far
    build,      \* "debug" (overflow checks) or "release" (wrapping)
    \* EulerParams::from_angles
    sol,        \* the locals of from_angles
    spc,        \* "loop", "returned" or "panicked"
    \* flatten_offset
    fl,         \* the arguments and locals of flatten_offset
    flpc        \* "off", "loop" inside the for loop, "end" after it,
                \* "returned" after the return

svars == <<ctx, style, backend, path, mark, flush, pc>>

fvars == <<iter, fpc, t0f, cand, segs, build>>

solvars == <<sol, spc>>

flvars == <<fl, flpc>>

vars == <<ctx, style, backend, path, mark, flush, pc, iter, fpc, t0f, cand, segs, build,
          sol, spc, fl, flpc>>

(***************************************************************************)
(* stroke_undashed as a state machine: one action per PathEl of the input, *)
(* and Finish for the code after the loop.                                 *)
(***************************************************************************)

Joins == {"Bevel", "Miter", "Round"}

Caps == {"Butt", "Round", "Square"}

\* Stroke::new(width) with caps and join; miter_limit is kurbo's default
Stroke_new(width, join, start_cap, end_cap) ==
    [width |-> width, join |-> join, start_cap |-> start_cap, end_cap |-> end_cap,
     miter_limit |-> 4]

\* the calls of stroke_undashed<L> that are checked
Calls ==
    {<<"Line", Stroke_new(10, "Bevel", "Butt", "Butt")>>,
     <<"Line", Stroke_new(10, "Miter", "Butt", "Butt")>>,
     <<"Line", Stroke_new(10, "Round", "Round", "Square")>>,
     <<"Arc", Stroke_new(10, "Round", "Square", "Round")>>,
     <<"Arc", Stroke_new(10, "Miter", "Butt", "Butt")>>,
     <<"Arc", Stroke_new(10, "Bevel", "Round", "Round")>>}

\* targets of MoveTo and LineTo
MovePts == {<<0, 0>>, <<100, 0>>}

LinePts == {<<0, 0>>, <<100, 0>>, <<100, 100>>, <<150, 5>>}

\* QuadTo(p1, p2) after p0: a quarter turn of radius 4
Quads(p0) == {<<VAdd(p0, <<4, 0>>), VAdd(p0, <<4, -4>>)>>}

\* CurveTo(p1, p2, p3) after p0: a straight cubic to (100, 0) with doubled
\* end points, a cubic out to (100, 100) and back, a cubic along the x axis
\* that turns back twice
Curves(p0) ==
    {<<p0, <<100, 0>>, <<100, 0>>>>,
     <<<<100, 100>>, <<100, 100>>, p0>>,
     <<<<100, 0>>, <<-50, 0>>, <<50, 0>>>>}

\* the fits offered to do_cubic for c: none are needed when c is linear
FitsFor(c, tolerance) ==
    IF IsLinearCubic(c, tolerance) THEN {<<>>} ELSE EulerFits(c)

StrokeCtx_new(tolerance) ==
    [output |-> LoweredPath_default,
     forward_path |-> StrokeContour_default,
     backward_path |-> StrokeContour_default,
     start_pt |-> Origin, start_norm |-> Origin, start_tan |-> Origin,
     last_pt |-> Origin, last_tan |-> Origin,
     tolerance |-> tolerance]

StrokeInit ==
    /\ \E call \in Calls : backend = call[1] /\ style = call[2]
    /\ ctx = StrokeCtx_new(Tolerance)
    /\ path = <<>>
    /\ mark = 0
    /\ flush = "none"
    /\ pc = "run"

\* the element el is consumed and leaves the context c
Consume(el, c) ==
    /\ ctx' = c
    /\ path' = Append(path, el)
    /\ UNCHANGED <<style, backend, pc>>
    /\ UNCHANGED <<fvars, solvars, flvars>>

MoreEls == pc = "run" /\ Len(path) < MaxEls

\* PathEl::MoveTo(p)
MoveTo ==
    /\ MoreEls
    /\ \E p \in MovePts :
         /\ Consume(<<"MoveTo", p>>,
                    [finish(backend, ctx, style) EXCEPT !.start_pt = p, !.last_pt = p])
         /\ mark' = Len(ctx.output.path)
         /\ flush' = "open"

\* PathEl::LineTo(p1)
LineTo ==
    /\ MoreEls
    /\ \E p1 \in LinePts :
         LET p0 == ctx.last_pt
             tangent == VSub(p1, p0)
         IN  Consume(<<"LineTo", p1>>,
                     IF p1 # p0
                     THEN do_line(backend,
                              [do_join(backend, ctx, style, tangent)
                                  EXCEPT !.last_tan = tangent],
                              style, tangent, p1)
                     ELSE ctx)
    /\ UNCHANGED <<mark, flush>>

\* the quads offered from p0: those of Quads and the quad of zero length
QuadEls(p0) == Quads(p0) \cup {<<p0, p0>>}

\* PathEl::QuadTo(p1, p2)
QuadTo ==
    /\ MoreEls
    /\ \E q \in QuadEls(ctx.last_pt) :
         LET p0 == ctx.last_pt
             qb == <<p0, q[1], q[2]>>
             c == QuadBez_raise(qb)
             tans == pathseg_tangents_quad(qb)
             live == q[1] # p0 \/ q[2] # p0
         IN  \E fit \in IF live THEN FitsFor(c, ctx.tolerance) ELSE {<<>>} :
               Consume(<<"QuadTo", q[1], q[2]>>,
                       IF live
                       THEN [do_cubic(backend, do_join(backend, ctx, style, tans[1]),
                                      style, c, fit)
                                EXCEPT !.last_tan = tans[2]]
                       ELSE ctx)
    /\ UNCHANGED <<mark, flush>>

\* PathEl::CurveTo(p1, p2, p3)
CurveTo ==
    /\ MoreEls
    /\ \E k \in Curves(ctx.last_pt) :
         LET p0 == ctx.last_pt
             c == <<p0, k[1], k[2], k[3]>>
             tans == pathseg_tangents_cubic(c)
             live == k[1] # p0 \/ k[2] # p0 \/ k[3] # p0
         IN  \E fit \in IF live THEN FitsFor(c, ctx.tolerance) ELSE {<<>>} :
               Consume(<<"CurveTo", k[1], k[2], k[3]>>,
                       IF live
                       THEN [do_cubic(backend, do_join(backend, ctx, style, tans[1]),
                                      style, c, fit)
                                EXCEPT !.last_tan = tans[2]]
                       ELSE ctx)
    /\ UNCHANGED <<mark, flush>>

\* PathEl::ClosePath
ClosePath ==
    /\ MoreEls
    /\ LET p0 == ctx.last_pt
           tangent == VSub(ctx.start_pt, p0)
       IN  /\ Consume(<<"ClosePath">>,
                      finish_closed(backend,
                          IF p0 # ctx.start_pt
                          THEN do_line(backend,
                                   [do_join(backend, ctx, style, tangent)
                                       EXCEPT !.last_tan = tangent],
                                   style, tangent, ctx.start_pt)
                          ELSE ctx,
                          style))
           /\ mark' = Len(ctx.output.path)
           /\ flush' = "closed"

\* the end of the path: ctx.finish(style); ctx.output
Finish ==
    /\ pc = "run"
    /\ ctx' = finish(backend, ctx, style)
    /\ pc' = "done"
    /\ mark' = Len(ctx.output.path)
    /\ flush' = "open"
    /\ UNCHANGED <<style, backend, path>>
    /\ UNCHANGED <<fvars, solvars, flvars>>




(***************************************************************************)
(* CubicToEulerIter as a state machine.                                    *)
(***************************************************************************)
\* the fitter before CubicToEulerIter::new
FitIdle ==
    /\ iter = [c |-> <<>>]
    /\ fpc = "off"
    /\ t0f = [n |-> 0, ec |-> 0]
    /\ cand = <<>>
    /\ segs = <<>>
    /\ build = "debug"

\* the cubics handed to CubicToEulerIter::new: a curve, a cubic that goes
\* out and comes back on itself, a straight cubic with doubled end points
FitCubics ==
    {<<<<0, 0>>, <<30, 0>>, <<60, 40>>, <<100, 100>>>>,
     <<<<0, 0>>, <<100, 0>>, <<100, 0>>, <<0, 0>>>>,
     <<<<0, 0>>, <<0, 0>>, <<100, 0>>, <<100, 0>>>>}

FitInit ==
    /\ \E c \in FitCubics : iter = CubicToEulerIter_new(c, FitTol)
    /\ build \in {"debug", "release"}
    /\ fpc = "idle"
    /\ t0f = [n |-> 0, ec |-> 0]
    /\ cand = <<>>
    /\ segs = <<>>

\* a call of next up to the head of the loop: None when t0 * dt == 1.0
FitCall ==
    /\ fpc \in {"idle", "none"}
    /\ IF AtEnd(iter)
       THEN fpc' = "none" /\ UNCHANGED t0f
       ELSE /\ fpc' = "loop"
            /\ t0f' = [n |-> U64Val(iter.t0), ec |-> iter.e]
    /\ UNCHANGED <<iter, cand, segs, build>>
    /\ UNCHANGED <<svars, solvars, flvars>>

\* one pass of the loop up to the test: eval_and_deriv, the nudge,
\* from_points_derivs, est_euler_err
FitCandidate ==
    /\ fpc = "loop"
    /\ \E t1 \in {CandT1(t0f, iter.e)} :
         \E k \in {Candidate(iter, t1)} :
           \E err \in CandErrs(iter, k) :
             cand' = [t1 |-> k.t1, p1 |-> k.p1, q1 |-> k.q1, p0 |-> k.p0, q0 |-> k.q0,
                      err |-> err]
    /\ fpc' = "test"
    /\ UNCHANGED <<iter, t0f, segs, build>>
    /\ UNCHANGED <<svars, solvars, flvars>>

\* err <= self.tolerance: advance t0 and dt, fit the spiral, return Some(es);
\* from_angles may panic instead
FitAccept ==
    /\ fpc = "test"
    /\ ErrLeq(cand.err, iter.tolerance)
    /\ LET v == U64Val(iter.t0) + 1
           shift == TrailingZeros(v)
           moved == [iter EXCEPT !.t0 = [m |-> v \div 2 ^ shift, s |-> 0],
                                 !.e = @ - shift]
           es == [p0 |-> cand.p0, p1 |-> cand.p1, t0 |-> iter.last_t, t1 |-> cand.t1,
                  err |-> cand.err]
       IN  \E diverged \in BOOLEAN :
             IF diverged
             THEN /\ iter' = moved
                  /\ fpc' = "panicked"
                  /\ UNCHANGED segs
             ELSE /\ iter' = [moved EXCEPT !.last_p = cand.p1, !.last_q = cand.q1,
                                           !.last_t = cand.t1]
                  /\ fpc' = "idle"
                  /\ segs' = Append(segs, es)
    /\ UNCHANGED <<t0f, cand, build>>
    /\ UNCHANGED <<svars, solvars, flvars>>

\* otherwise: self.t0 *= 2; self.dt *= 0.5; and around the loop again.  The
\* multiplication panics on overflow in a build with overflow checks and
\* wraps in one without.
FitSubdivide ==
    /\ fpc = "test"
    /\ ~ErrLeq(cand.err, iter.tolerance)
    /\ IF build = "debug" /\ U64DoubleOverflows(iter.t0)
       THEN fpc' = "panicked" /\ UNCHANGED iter
       ELSE /\ fpc' = "loop"
            /\ iter' = [iter EXCEPT !.t0 = U64Double(@), !.e = Min(@ + 1, DtZero)]
    /\ UNCHANGED <<t0f, cand, segs, build>>
    /\ UNCHANGED <<svars, solvars, flvars>>

FitNext == FitCall \/ FitCandidate \/ FitAccept \/ FitSubdivide


(***************************************************************************)
(* EulerParams::from_angles as a state machine.  Angles are in             *)
(* milliradians, k1 in thousandths, residuals in units of 1e-9.  The       *)
(* residual of an iteration (it comes from integ_euler) is an input.       *)
(***************************************************************************)
\* the number of passes of `for _ in 0..10`
SolveIters == 10

\* the angles th0, th1 of the calls that are checked
SolveAngles == {-500, 0, 500}

\* residuals: converged; of size exactly 1e-9, negative; far off
Residuals == {Num(0), Num(-1), Num(1000)}

\* the initial guess (6 - dth^2 / 70 - 0.1 k0^2) * dth
InitialK1(dth, k0) ==
    RDiv(dth * (6000 - RDiv(dth * dth, 70000) - RDiv(k0 * k0, 10000)), 1000)

\* the locals of from_angles(th0, th1) before the loop
from_angles_locals(th0, th1) ==
    [th0 |-> th0, th1 |-> th1, k0 |-> th0 + th1,
     k1 |-> Num(InitialK1(th1 - th0, th0 + th1)), k1_old |-> Num(0),
     error_old |-> Num((th1 - th0) * 1000000), i |-> 0, error |-> NaN]

\* error.abs() <= 1e-9 (fault variant of Converged)
ConvergedInclusive(error) == error # NaN /\ Abs(error[1]) <= 1

\* error.abs() < 1e-9 in f64: false for NaN
Converged(error) == error # NaN /\ Abs(error[1]) < 1

\* k1 + (k1_old - k1) * error / (error - error_old); not a number when the
\* two residuals are equal
SecantStep(k1, k1_old, error, error_old) ==
    IF k1 = NaN \/ k1_old = NaN \/ error = NaN \/ error_old = NaN \/ error = error_old
    THEN NaN
    ELSE Num(k1[1] + RDiv((k1_old[1] - k1[1])
                          * RDiv(1000 * error[1], error[1] - error_old[1]), 1000))

\* the residuals integ_euler can yield for k1
ResidualsFor(k1) == IF k1 = NaN THEN {NaN} ELSE Residuals

\* the solver before it is called
SolveIdle ==
    /\ sol = [i |-> 0]
    /\ spc = "off"

SolveInit ==
    /\ \E th0 \in SolveAngles, th1 \in SolveAngles : sol = from_angles_locals(th0, th1)
    /\ spc = "loop"

\* one pass of the loop: return when converged, else the secant update
SolveIterate ==
    /\ spc = "loop"
    /\ sol.i < SolveIters
    /\ \E error \in ResidualsFor(sol.k1) :
         IF Converged(error)
         THEN /\ spc' = "returned"
              /\ sol' = [sol EXCEPT !.error = error, !.i = @ + 1]
         ELSE /\ spc' = "loop"
              /\ sol' = [sol EXCEPT
                           !.k1 = SecantStep(sol.k1, sol.k1_old, error, sol.error_old),
                           !.k1_old = sol.k1,
                           !.error_old = error,
                           !.error = error,
                           !.i = @ + 1]
    /\ UNCHANGED <<svars, fvars, flvars>>

\* panic!("fit_euler diverged on ...") after the loop
SolvePanic ==
    /\ spc = "loop"
    /\ sol.i >= SolveIters
    /\ spc' = "panicked"
    /\ UNCHANGED sol
    /\ UNCHANGED <<svars, fvars, flvars>>

SolveNext == SolveIterate \/ SolvePanic

(***************************************************************************)
(* flatten_offset of flatten.rs and its 32-bit twin of flatten32.rs as a   *)
(* state machine.  The segment is [p0, p1, params: [k0, k1, ch]].          *)
(* Curvatures, ch, dist_scaled, a, b, the integrals and the parameter s    *)
(* are fixed-point numbers in units of 1/10000; lengths (the chord, the    *)
(* offset, the tolerance) are in thousandths, scale_multiplier too.        *)
(***************************************************************************)
K1_THRESH == 10

DIST_THRESH == 10

BREAK1 == 8000

BREAK2 == 12500

BREAK3 == 21000

SIN_SCALE == 10977

QUAD_A1 == 6406

QUAD_B1 == -8100

QUAD_C1 == 9148

QUAD_A2 == 5000

QUAD_B2 == -1560

QUAD_C2 == 1615

FRAC_PI_4 == 7854

\* the product of two fixed-point numbers
MulU(x, y) == RDiv(x * y, 10000)

\* a.copysign(x)
CopySign(a, x) == IF x < 0 THEN -Abs(a) ELSE Abs(a)

\* the closure f of the LowDist regime: x * x.abs().sqrt()
LowDist_f(x) == Sgn(x) * RDiv(Abs(x) * ISqrt(Abs(x) * 10000), 10000)

\* espc_int_approx: the piecewise approximation of the integral of
\* sqrt|x^2 - 1|; 9428 is sqrt(8) / 3
espc_int_approx(x) ==
    LET y == Abs(x)
        Quad(qa, qb, qc) == MulU(qa, MulU(y, y)) + MulU(qb, y) + qc
    IN  CopySign(IF y < BREAK1
                 THEN RDiv(Sin(RDiv(SIN_SCALE * y, 100000)) * 100000, SIN_SCALE)
                 ELSE IF y < BREAK2
                 THEN MulU(9428, LowDist_f(y - 10000)) + FRAC_PI_4
                 ELSE IF y < BREAK3 THEN Quad(QUAD_A1, QUAD_B1, QUAD_C1)
                 ELSE Quad(QUAD_A2, QUAD_B2, QUAD_C2),
                 x)

\* espc_int_inv_approx: the piecewise inverse of espc_int_approx, an angle
\* from asin in milliradians; 10400 is cbrt(9 / 8)
espc_int_inv_approx(x) ==
    LET y == Abs(x)
        asin(z) == Atan2(z, ISqrt(100000000 - z * z))
        Pow23(b) == Sgn(b) * 10 * ICbrt(b * b * 10)
        Root(qa, qb, qc) ==
            LET B == RDiv(qb * 10000, 2 * qa)
            IN  ISqrt((MulU(B, B) - RDiv(qc * 10000, qa)
                       + MulU(RDiv(100000000, qa), y)) * 10000) - B
    IN  CopySign(IF y < 7011
                 THEN RDiv(asin(MulU(y, SIN_SCALE)) * 100000, SIN_SCALE)
                 ELSE IF y < 9032
                 THEN MulU(Pow23(y - FRAC_PI_4), 10400) + 10000
                 ELSE IF y < 20389 THEN Root(QUAD_A1, QUAD_B1, QUAD_C1)
                 ELSE Root(QUAD_A2, QUAD_B2, QUAD_C2),
                 x)

\* the regime with a k1 threshold a tenth of K1_THRESH (fault variant of
\* EspcRobust)
EspcRobustLowThresh(k1, offset, ch, scale) ==
    IF 10 * Abs(k1) < K1_THRESH THEN "LowK1"
    ELSE IF Abs(offset) * ch < scale * DIST_THRESH THEN "LowDist"
    ELSE "Normal"

\* the regime flatten_offset selects: k1.abs() < K1_THRESH, else
\* dist_scaled.abs() < DIST_THRESH (dist_scaled = offset * ch / scale), else
\* Normal
EspcRobust(k1, offset, ch, scale) ==
    IF Abs(k1) < K1_THRESH THEN "LowK1"
    ELSE IF Abs(offset) * ch < scale * DIST_THRESH THEN "LowDist"
    ELSE "Normal"

\* the locals of flatten_offset at the head of its for loop
flatten_offset_locals(es, offset, tol) ==
    LET scale == VHypot(VSub(es.p0, es.p1))
        k1 == es.params.k1
        k0 == es.params.k0 - RDiv(k1, 2)
        ch == es.params.ch
        dist_scaled == RDiv(offset * ch, scale)
        scale_multiplier ==
            ISqrt(RDiv(RDiv(scale * 10000, tol) * 100, 8 * ch) * 10000)
        N(n_frac) == Max(1, CeilDiv(n_frac * scale_multiplier, 10000000))
        Peak(k) == ISqrt(Abs(k * (MulU(k, dist_scaled) + 10000)))
        LowK1 ==
            [robust |-> "LowK1", a |-> 0, b |-> 0, integral |-> 0, int0 |-> 0,
             n |-> N(Peak(k0 + RDiv(k1, 2)))]
        LowDist ==
            LET a == k1
                b == k0
                int0 == LowDist_f(b)
                integral == LowDist_f(a + b) - int0
            IN  [robust |-> "LowDist", a |-> a, b |-> b, integral |-> integral,
                 int0 |-> int0, n |-> N(RDiv(2 * integral * 10000, 3 * a))]
        Normal ==
            LET a == RDiv(-2 * dist_scaled * k1, 10000)
                b == -10000 - RDiv(2 * dist_scaled * k0, 10000)
                int0 == espc_int_approx(b)
                integral == espc_int_approx(a + b) - int0
                k_peak == k0 - RDiv(k1 * b, a)
            IN  [robust |-> "Normal", a |-> a, b |-> b, integral |-> integral,
                 int0 |-> int0, n |-> N(RDiv(integral * Peak(k_peak), a))]
    IN  CASE EspcRobust(k1, offset, ch, scale) = "LowK1" -> LowK1
          [] EspcRobust(k1, offset, ch, scale) = "LowDist" -> LowDist
          [] OTHER -> Normal

\* the s of pass i of the for loop (t = (i + 1) / n)
flatten_offset_s(lo, i) ==
    LET v == RDiv(lo.integral * (i + 1), lo.n) + lo.int0
        c == Sgn(v) * ICbrt(Abs(v) * 100000)
    IN  IF lo.robust = "LowK1" THEN RDiv((i + 1) * 10000, lo.n)
        ELSE IF lo.robust = "LowDist"
        THEN RDiv((RDiv(c * Abs(c), 100) - lo.b) * 10000, lo.a)
        ELSE RDiv((espc_int_inv_approx(v) - lo.b) * 10000, lo.a)

\* es.eval_with_offset(s, offset) on the grid of thousandths
FlatPoint(es, s, offset) ==
    EulerSeg_eval_with_offset(
        [p0 |-> es.p0, p1 |-> es.p1,
         ka |-> RDiv(es.params.k0 - RDiv(es.params.k1, 2), 10),
         kb |-> RDiv(es.params.k0 + RDiv(es.params.k1, 2), 10)],
        RDiv(s, 10), offset)

\* the end of the for loop with every pass taken (fault variant of LoopEnd)
LoopEndAll(impl, n) == n

\* the end of the for loop: `0..n as usize - 1` in flatten.rs, which leaves
\* the last point to the call after the loop, `0..n as usize` in flatten32.rs
LoopEnd(impl, n) == IF impl = "flatten" THEN n - 1 ELSE n

\* the two implementations
Impls == {"flatten", "flatten32"}

\* the calls: <<params.k0, params.k1, params.ch, offset, tol>> on the chord
\* from (0, 0) to (1, 0)
FlatCalls ==
    {<<1200, 0, 10000, 1000, 1>>, <<1200, 8, 10000, 1000, 1>>,
     <<1200, 120, 10000, 1000, 1>>, <<1200, -120, 10000, 1000, 1>>,
     <<3000, 6000, 9974, 0, 100>>, <<3000, 6000, 9974, 0, 1>>,
     <<3000, 6000, 9974, 1, 100>>, <<3000, 6000, 9974, 1, 1>>,
     <<3000, 6000, 9974, 500, 1>>, <<3000, 6000, 9974, -500, 1>>,
     <<3000, 6000, 9974, 500, 100>>, <<3000, -6000, 9974, 500, 1>>,
     <<-3000, 6000, 9974, 500, 1>>, <<7000, 20000, 9500, -300, 1>>,
     <<7000, 20000, 9500, 300, 1>>, <<7000, 20000, 9500, -300, 10>>}

\* the segment of a call
FlatSeg(c) ==
    [p0 |-> <<0, 0>>, p1 |-> <<1000, 0>>,
     params |-> [k0 |-> c[1], k1 |-> c[2], ch |-> c[3]]]

\* flatten_offset before it is called
FlatIdle ==
    /\ fl = [i |-> 0]
    /\ flpc = "off"

\* the call, up to the head of the for loop; flatten32.rs starts its result
\* with a move_to of the point at 0
FlatInit ==
    /\ \E c \in FlatCalls, impl \in Impls :
          fl = [impl |-> impl, es |-> FlatSeg(c), offset |-> c[4], tol |-> c[5],
                lo |-> flatten_offset_locals(FlatSeg(c), c[4], c[5]),
                i |-> 0,
                start |-> IF impl = "flatten32"
                          THEN Some(FlatPoint(FlatSeg(c), 0, c[4])) ELSE None,
                out |-> <<>>]
    /\ flpc = "loop"

\* one pass of the for loop: f(es.eval_with_offset(s, offset))
FlattenPoint ==
    /\ flpc = "loop"
    /\ fl.i < LoopEnd(fl.impl, fl.lo.n)
    /\ \E s \in {flatten_offset_s(fl.lo, fl.i)} :
          fl' = [fl EXCEPT !.i = @ + 1,
                           !.out = Append(@, [s |-> s, p |-> FlatPoint(fl.es, s, fl.offset)])]
    /\ UNCHANGED flpc
    /\ UNCHANGED <<svars, fvars, solvars>>

\* the end of the loop: flatten.rs calls f(es.eval_with_offset(1.0, offset))
\* and returns, flatten32.rs returns its result
FlattenEnd ==
    /\ flpc = "loop"
    /\ fl.i >= LoopEnd(fl.impl, fl.lo.n)
    /\ fl' = [fl EXCEPT !.out =
                 IF fl.impl = "flatten"
                 THEN Append(@, [s |-> 10000, p |-> FlatPoint(fl.es, 10000, fl.offset)])
                 ELSE @]
    /\ flpc' = "returned"
    /\ UNCHANGED <<svars, fvars, solvars>>

FlatNext == FlattenPoint \/ FlattenEnd

(***************************************************************************)
(* Specifications.                                                         *)
(***************************************************************************)
Init == StrokeInit /\ FitIdle /\ SolveIdle /\ FlatIdle

Next == MoveTo \/ LineTo \/ QuadTo \/ CurveTo \/ ClosePath \/ Finish

\* stroke_undashed
Spec == Init /\ [][Next]_vars

StrokeIdle ==
    /\ ctx = StrokeCtx_new(Tolerance)
    /\ style = Stroke_new(10, "Bevel", "Butt", "Butt")
    /\ backend = "Line"
    /\ path = <<>>
    /\ mark = 0
    /\ flush = "none"
    /\ pc = "off"

\* CubicToEulerIter::new has been called; the other programs are idle
FitStart == StrokeIdle /\ FitInit /\ SolveIdle /\ FlatIdle

\* CubicToEulerIter
FitSpec == FitStart /\ [][FitNext]_vars

\* CubicToEulerIter with a caller that keeps calling next and a processor
\* that keeps executing the loop
FitLive == FitSpec /\ WF_vars(FitNext)

\* from_angles has been called; the other programs are idle
SolveStart == StrokeIdle /\ FitIdle /\ SolveInit /\ FlatIdle

\* EulerParams::from_angles
SolveSpec == SolveStart /\ [][SolveNext]_vars

\* flatten_offset has been called; the other programs are idle
FlatStart == StrokeIdle /\ FitIdle /\ SolveIdle /\ FlatInit

\* flatten_offset
FlatSpec == FlatStart /\ [][FlatNext]_vars

(***************************************************************************)
(* Properties of stroke_undashed (Spec).                                   *)
(***************************************************************************)
\* the primitives of the LoweredPath that is returned
Out == ctx.output.path

\* the primitives that the latest finish or finish_closed appended
Chunk == SubSeq(Out, mark + 1, Len(Out))

\* every primitive of seq starts where the one before it ends
Contiguous(seq) == \A i \in 1..(Len(seq) - 1) : seq[i].p1 = seq[i + 1].p0

\* seq ends where it starts
Closed(seq) == seq # <<>> /\ seq[Len(seq)].p1 = seq[1].p0

\* the point a path element ends at
ElEnd(el) == el[Len(el)]

\* the current point before path[i], in a path without ClosePath
PtBefore(i) == IF i = 1 THEN Origin ELSE ElEnd(path[i - 1])

\* path[i] is a segment of non-zero length: the tests p1 != p0,
\* p1 != p0 || p2 != p0, p1 != p0 || p2 != p0 || p3 != p0 of stroke_undashed
NonZeroEl(i) ==
    /\ path[i][1] \in {"LineTo", "QuadTo", "CurveTo"}
    /\ \E k \in 2..Len(path[i]) : path[i][k] # PtBefore(i)

\* the path is one open subpath with a segment of non-zero length: MoveTo
\* at most in front, no ClosePath
OneOpenSubpath ==
    /\ \A i \in 1..Len(path) : path[i][1] # "ClosePath"
    /\ \A i \in 2..Len(path) : path[i][1] # "MoveTo"
    /\ \E i \in 1..Len(path) : NonZeroEl(i)

\* C1: in the LoweredPath that stroke_undashed returns, every primitive
\* starts exactly where the primitive before it ends.
C1_OutputContiguous == pc = "done" => Contiguous(Out)

\* a returned outline of one open subpath with a break inside it, lowered
\* to arcs
C1_BreakInsideSubpath ==
    pc = "done" /\ backend = "Arc" /\ OneOpenSubpath /\ ~Contiguous(Out)

\* a closed subpath has just been flushed and has yielded primitives
ClosedChunk == flush = "closed" /\ Len(Out) > mark

\* C2 as stated: the primitives emitted for a closed subpath form one closed
\* loop, the last primitive ending where the first one starts.
C2_ClosedSubpathOneLoop == ClosedChunk => Closed(Chunk)

\* the path is made of straight segments only
StraightPath == \A i \in 1..Len(path) : path[i][1] \in {"MoveTo", "LineTo", "ClosePath"}

\* C2 as the code has it, for a path of straight segments: the primitives
\* emitted for a closed subpath are the forward contour followed by the
\* backward contour reversed; the first primitive starts on one side of the
\* subpath's start point and the last primitive ends at the mirror image of
\* that point on the other side, so the last primitive never ends where the
\* first one starts.
C2_ClosedSubpathEndsOpposite ==
    (ClosedChunk /\ StraightPath) =>
        /\ VAdd(Chunk[1].p0, Chunk[Len(Chunk)].p1)
             = <<2 * ctx.start_pt[1], 2 * ctx.start_pt[2]>>
        /\ Chunk[1].p0 # Chunk[Len(Chunk)].p1

\* a triangle closed by ClosePath has been flushed
C2_TriangleFlushed ==
    /\ ClosedChunk
    /\ path = <<<<"LineTo", <<100, 0>>>>, <<"LineTo", <<100, 100>>>>, <<"ClosePath">>>>

\* C3: for an open subpath with a segment of non-zero length, finish appends
\* a chain (forward contour, end cap, backward contour reversed, start cap)
\* that is contiguous, starts at start_pt - start_norm and ends there.
C3_OpenSubpathOnePolygon ==
    (pc = "done" /\ OneOpenSubpath) =>
        /\ Chunk # <<>>
        /\ Contiguous(Chunk)
        /\ Chunk[1].p0 = VSub(ctx.start_pt, ctx.start_norm)
        /\ Closed(Chunk)

\* an open subpath with a segment of non-zero length, lowered to arcs, for
\* which finish has appended nothing
C3_SubpathDropped == pc = "done" /\ backend = "Arc" /\ OneOpenSubpath /\ Out = <<>>

\* both caps are Cap::Butt
ButtCaps == style.start_cap = "Butt" /\ style.end_cap = "Butt"

\* the path is MoveTo(p0), LineTo(p1) with p1 != p0
MoveLine ==
    /\ Len(path) = 2
    /\ path[1][1] = "MoveTo"
    /\ path[2][1] = "LineTo"
    /\ path[2][2] # path[1][2]

\* the four lines out are a rectangle around the line from p0 to p1 = p0 + t:
\* the forward side, the end cap, the backward side reversed, the start cap;
\* the long sides are the line moved by -+o, o perpendicular to t and
\* width / 2 long, both up to the rounding of a point to the grid
RectangleAround(out, p0, t, width) ==
    /\ Len(out) = 4
    /\ \A i \in 1..4 : out[i].k0 = 0
    /\ Contiguous(out) /\ Closed(out)
    /\ VSub(out[1].p1, out[1].p0) = t
    /\ VSub(out[3].p1, out[3].p0) = VNeg(t)
    /\ VAdd(out[1].p0, out[3].p1) = <<2 * p0[1], 2 * p0[2]>>
    /\ VCross(t, VSub(out[1].p0, p0)) < 0
    /\ Abs(VDot(VSub(out[1].p0, p0), t)) <= VHypot(t)
    /\ (width - 2) * (width - 2) <= 4 * VHypot2(VSub(out[1].p0, p0))
    /\ 4 * VHypot2(VSub(out[1].p0, p0)) <= (width + 2) * (width + 2)

\* C4: stroking MoveTo(p0), LineTo(p1), p1 != p0, with butt caps returns
\* exactly 4 line primitives that form a rectangle whose long sides are the
\* line offset by width / 2 to either side.
C4_LineButtRectangle ==
    (pc = "done" /\ MoveLine /\ ButtCaps) =>
        RectangleAround(Out, path[1][2], VSub(path[2][2], path[1][2]), style.width)

\* a diagonal line has been stroked with butt caps
C4_DiagonalStroked ==
    /\ pc = "done" /\ MoveLine /\ ButtCaps
    /\ path[1][2] = <<0, 0>> /\ path[2][2] = <<100, 100>>
    /\ Len(Out) = 4

\* the cubic (0,0)-(0,0)-(100,0)-(100,0)
DoubledEnds == <<<<0, 0>>, <<0, 0>>, <<100, 0>>, <<100, 0>>>>

\* the path is that cubic from the origin
DoubledEndsPath == path = <<<<"CurveTo", DoubledEnds[2], DoubledEnds[3], DoubledEnds[4]>>>>

\* what stroke_undashed returns for the path LineTo((100,0)) from the origin
StrokeOfLine ==
    finish(backend,
           do_line(backend,
                   [do_join(backend, StrokeCtx_new(Tolerance), style, <<100, 0>>)
                       EXCEPT !.last_tan = <<100, 0>>],
                   style, <<100, 0>>, <<100, 0>>),
           style).output.path

\* the rectangle (0,-5) (100,-5) (100,5) (0,5)
Rect100x10 ==
    <<[p0 |-> <<0, -5>>, p1 |-> <<100, -5>>, k0 |-> 0],
      [p0 |-> <<100, -5>>, p1 |-> <<100, 5>>, k0 |-> 0],
      [p0 |-> <<100, 5>>, p1 |-> <<0, 5>>, k0 |-> 0],
      [p0 |-> <<0, 5>>, p1 |-> <<0, -5>>, k0 |-> 0]>>

\* C5: stroking the cubic (0,0)-(0,0)-(100,0)-(100,0) at width 10 with butt
\* caps takes the linear branch of do_cubic (no Euler segment is fitted) and
\* returns what stroking the line (0,0)-(100,0) returns: the rectangle
\* (0,-5) (100,-5) (100,5) (0,5).
C5_DoubledEndsCubicIsLine ==
    (pc = "done" /\ DoubledEndsPath /\ ButtCaps /\ style.width = 10) =>
        /\ IsLinearCubic(DoubledEnds, ctx.tolerance)
        /\ Out = StrokeOfLine
        /\ Out = Rect100x10

\* that cubic has been stroked with butt caps
C5_DoubledEndsStroked ==
    pc = "done" /\ DoubledEndsPath /\ ButtCaps /\ style.width = 10 /\ Len(Out) = 4

\* the test 2 * hypot < (hypot + dot) * miter_limit^2 fails for the join
\* between the tangents ab and cd
BeyondMiterLimit(ab, cd, miter_limit) ==
    LET cross == VCross(ab, cd)
        dot == VDot(ab, cd)
        hypot == ISqrt(cross * cross + dot * dot)
    IN  ~(2 * hypot < (hypot + dot) * miter_limit * miter_limit)

\* a contour after line_to(a) and line_to(b): what was pending is spliced
\* in, then exactly these two lines
TwoLinesOn(sc, a, b) ==
    LET f == StrokeContour_finalize(backend, sc).main_path
    IN  [main_path |-> [path |-> f.path \o <<L_line(backend, f.last_pt, a),
                                                L_line(backend, a, b)>>,
                        last_pt |-> b],
         rev_parallel |-> None, evolute |-> None]

\* the step is LineTo(p1) with a join under Join::Miter that is beyond the
\* miter limit
MiterJoinBeyondLimit(p1) ==
    LET tan == VSub(p1, ctx.last_pt)
    IN  /\ pc = "run"
        /\ path' = Append(path, <<"LineTo", p1>>)
        /\ p1 # ctx.last_pt
        /\ style.join = "Miter"
        /\ ~StrokeContour_is_empty(ctx.forward_path)
        /\ JoinNeeded(ctx, style, VCross(ctx.last_tan, tan), VDot(ctx.last_tan, tan))
        /\ BeyondMiterLimit(ctx.last_tan, tan, style.miter_limit)

\* C6: under Join::Miter a join beyond the miter limit is a Bevel join:
\* do_join appends one line to p0 - norm on the forward contour and one line
\* to p0 + norm on the backward contour, and no miter vertex (the line of
\* do_line follows on either contour).
C6_MiterBeyondLimitIsBevel ==
    [][\A p1 \in LinePts :
         MiterJoinBeyondLimit(p1) =>
            LET p0 == ctx.last_pt
                norm == StrokeNorm(style, VSub(p1, p0))
            IN  /\ ctx'.forward_path
                     = TwoLinesOn(ctx.forward_path, VSub(p0, norm), VSub(p1, norm))
                /\ ctx'.backward_path
                     = TwoLinesOn(ctx.backward_path, VAdd(p0, norm), VAdd(p1, norm))]_vars

\* a join that turns back sharply to one side has been made under
\* Join::Miter: (100,0) to (150,5), then back to the origin
C6_SharpTurnJoined ==
    /\ style.join = "Miter"
    /\ path = <<<<"LineTo", <<100, 0>>>>, <<"LineTo", <<150, 5>>>>, <<"LineTo", <<0, 0>>>>>>
    /\ BeyondMiterLimit(<<50, 5>>, <<-150, -5>>, style.miter_limit)
    /\ VCross(<<50, 5>>, <<-150, -5>>) # 0
    /\ ctx.last_tan = <<-150, -5>>

(***************************************************************************)
(* Properties of CubicToEulerIter (FitSpec, FitLive).                      *)
(***************************************************************************)
\* C7: every EulerSeg that next has returned comes from a candidate whose
\* estimated error (est_euler_err times the chord length) is a number that
\* is at most the tolerance.
C7_ReturnedWithinTolerance ==
    \A i \in 1..Len(segs) : segs[i].err # NaN /\ segs[i].err[1] <= iter.tolerance

\* segments have been returned, one of them after a subdivision and one of
\* them with an estimate that meets the tolerance exactly
C7_SegmentsReturned ==
    /\ Len(segs) >= 2
    /\ \E i \in 1..Len(segs) : segs[i].t1.t # <<1, 1>>
    /\ \E i \in 1..Len(segs) : segs[i].err = Num(iter.tolerance)

\* the parameter t of a last_t or t1 comes before that of another
TBefore(a, b) == FracLess(a.t, b.t) \/ (a.t = b.t /\ a.nudged /\ ~b.nudged)

\* the segments returned so far are contiguous from c.p0 and their parameter
\* intervals increase from 0 without gap or overlap; once next has returned
\* None the last interval ends at t = 1
SegsInOrder ==
    /\ \A i \in 1..Len(segs) :
         /\ segs[i].p0 = IF i = 1 THEN iter.c[1] ELSE segs[i - 1].p1
         /\ segs[i].t0 = IF i = 1 THEN [t |-> <<0, 1>>, nudged |-> FALSE]
                         ELSE segs[i - 1].t1
         /\ TBefore(segs[i].t0, segs[i].t1)
    /\ fpc = "none" =>
         /\ segs # <<>>
         /\ segs[Len(segs)].t1 = [t |-> <<1, 1>>, nudged |-> FALSE]

\* C8: the segments of CubicToEulerIter are a finite sequence: contiguous
\* from c.p0, with parameter intervals that increase without gap or overlap
\* and end at t = 1; next returns None in the end (unless a call has ended
\* in a panic), and once it has returned None it returns None again.
C8_FiniteContiguousSequence ==
    /\ []SegsInOrder
    /\ [][fpc = "none" => fpc' = "none"]_vars
    /\ <>(fpc \in {"none", "panicked"})

\* the sequence has been exhausted: next has returned None after segments
C8_Exhausted == fpc = "none" /\ Len(segs) >= 2

\* C9: every call of next terminates, with a result or with a panic: the
\* subdivide-and-retry loop is left after a bounded number of passes.
C9_NextTerminates == (fpc \in {"loop", "test"}) ~> (fpc \in {"idle", "none", "panicked"})

\* the loop of next in a build without overflow checks after t0 has wrapped
\* to 0 and dt has reached 0.0: every further pass leaves it there
C9_LoopSpinning ==
    /\ build = "release"
    /\ fpc = "loop"
    /\ iter.e = DtZero
    /\ iter.t0.m = 0

(***************************************************************************)
(* Properties of EulerParams::from_angles (SolveSpec).                     *)
(***************************************************************************)
\* C10: from_angles makes at most 10 passes; it returns only from a pass
\* whose residual is a number with |error| < 1e-9, and panics only after 10
\* passes none of which met that.
C10_ReturnsOnlyConverged ==
    /\ sol.i <= 10
    /\ spc = "returned" => sol.error # NaN /\ Abs(sol.error[1]) < 1
    /\ spc = "panicked" => sol.i = 10 /\ (sol.error = NaN \/ Abs(sol.error[1]) >= 1)

\* from_angles has returned from its tenth pass
C10_ReturnedAtTenth == spc = "returned" /\ sol.i = 10


(***************************************************************************)
(* Properties of flatten_offset (FlatSpec).                                *)
(***************************************************************************)
\* the parameters handed to the callback so far
FlatParams == [i \in 1..Len(fl.out) |-> fl.out[i].s]

\* C11: one call of flatten_offset of flatten.rs invokes the callback exactly
\* n times, n the subdivision count rounded up and at least 1; no callback
\* gets the starting point (parameter 0), the parameters are strictly
\* increasing, and the final callback gets the parallel curve's point at
\* parameter 1.
C11_CallbackCountAndOrder ==
    (flpc # "off" /\ fl.impl = "flatten") =>
        /\ fl.lo.n >= 1
        /\ Len(fl.out) <= fl.lo.n
        /\ \A i \in 1..Len(fl.out) :
              /\ FlatParams[i] > 0
              /\ FlatParams[i] <= 10000
              /\ i > 1 => FlatParams[i - 1] < FlatParams[i]
        /\ flpc = "returned" =>
              /\ Len(fl.out) = fl.lo.n
              /\ fl.out[fl.lo.n] = [s |-> 10000, p |-> FlatPoint(fl.es, 10000, fl.offset)]
              /\ fl.start = None

\* C11 witness: a call in the Normal regime has returned after five or more
\* callbacks
C11_ManyPointsReturned ==
    /\ flpc = "returned"
    /\ fl.impl = "flatten"
    /\ fl.lo.robust = "Normal"
    /\ Len(fl.out) >= 5


\* the points flatten_offset of flatten32.rs puts after its move_to
Flatten32Points(es, offset, tol) ==
    LET lo == flatten_offset_locals(es, offset, tol)
    IN  [i \in 1..lo.n |-> FlatPoint(es, flatten_offset_s(lo, i - 1), offset)]

\* the points of out are those of ref, none moved by more than d in x or y
SamePointsWithin(out, ref, d) ==
    /\ Len(out) = Len(ref)
    /\ \A i \in 1..Len(out) :
          /\ Abs(out[i][1] - ref[i][1]) <= d
          /\ Abs(out[i][2] - ref[i][2]) <= d

\* the points of the call that has returned
FlatOut == [i \in 1..Len(fl.out) |-> fl.out[i].p]

\* C13: the result of flatten_offset of flatten32.rs is continuous across the
\* regime thresholds: a call with k1 within 0.012 of 0 emits as many points
\* as the call with k1 = 0 (LowK1), and a call with an offset within 0.001
\* of 0 as many as the call with offset 0 (LowDist); no point moves by more
\* than 0.002.
C13_ContinuousAcrossThresholds ==
    (flpc = "returned" /\ fl.impl = "flatten32") =>
        /\ Abs(fl.es.params.k1) <= 120 =>
              SamePointsWithin(FlatOut,
                  Flatten32Points([fl.es EXCEPT !.params.k1 = 0], fl.offset, fl.tol), 2)
        /\ Abs(fl.offset) <= 1 =>
              SamePointsWithin(FlatOut, Flatten32Points(fl.es, 0, fl.tol), 2)

\* C13 witness: a call in the Normal regime with k1 = 0.012 has returned
\* four points where the call with k1 = 0, in the LowK1 regime, returns five
C13_CountDropsAcrossLowK1 ==
    /\ flpc = "returned"
    /\ fl.impl = "flatten32"
    /\ fl.es.params.k1 = 120
    /\ fl.lo.robust = "Normal"
    /\ Len(fl.out) = 4
    /\ flatten_offset_locals([fl.es EXCEPT !.params.k1 = 0], fl.offset, fl.tol).robust = "LowK1"
    /\ flatten_offset_locals([fl.es EXCEPT !.params.k1 = 0], fl.offset, fl.tol).n = 5

(***************************************************************************)
(* Properties of the cusp handling of stroke_undashed (Spec).              *)
(***************************************************************************)
\* the side of c on which the line from a to b has it: 1, -1, or 0 on it
Orient(a, b, c) == Sgn(VCross(VSub(b, a), VSub(c, a)))

\* the lines s1 and s2 cross: each has the ends of the other strictly on
\* opposite sides
Crosses(s1, s2) ==
    /\ Orient(s1.p0, s1.p1, s2.p0) * Orient(s1.p0, s1.p1, s2.p1) < 0
    /\ Orient(s2.p0, s2.p1, s1.p0) * Orient(s2.p0, s2.p1, s1.p1) < 0

\* the cusp terms of StrokeContour::do_euler_seg for es at offset h
CuspTerms(es, h) ==
    [t \in {0, 1000} |->
        EulerParams_curvature(es, t) * h + 1000 * VHypot(VSub(es.p1, es.p0))]


\* no two lines of out cross, except lines that follow one another
NoCrossing(out) ==
    \A i \in 1..Len(out), j \in 1..Len(out) :
        i + 1 < j => ~Crosses(out[i], out[j])

\* the input is one curve, stroked into lines, and the stroke is complete
OneCurveStroked ==
    /\ pc = "done"
    /\ backend = "Line"
    /\ Len(path) = 1
    /\ path[1][1] \in {"QuadTo", "CurveTo"}

AfterFirstQuad(q1, q2, fit) ==
    LET qb == <<Origin, q1, q2>>
        tans == pathseg_tangents_quad(qb)
    IN  [do_cubic(backend, do_join(backend, StrokeCtx_new(Tolerance), style, tans[1]),
                  style, QuadBez_raise(qb), fit)
            EXCEPT !.last_tan = tans[2]]

\* the cusp term of es changes sign at offset h, and t is
\* cusp0 / (cusp0 - cusp1) to the nearest thousandth
CuspSplitAt(es, h, t) ==
    /\ Sgn(CuspTerms(es, h)[0]) * Sgn(CuspTerms(es, h)[1000]) < 0
    /\ t = RDiv(1000 * CuspTerms(es, h)[0], CuspTerms(es, h)[0] - CuspTerms(es, h)[1000])

ContourEmpty(sc) ==
    /\ sc.main_path.path = <<>>
    /\ sc.evolute = None
    /\ sc.rev_parallel = None

\* the latest step was a MoveTo, a ClosePath or the end of the input
SubpathEnded ==
    \/ pc = "done"
    \/ Len(path) > 0 /\ path[Len(path)][1] \in {"MoveTo", "ClosePath"}

\* C14: after a MoveTo, a ClosePath or the end of the input both contours
\* are back in the Empty state: their main paths are empty and neither holds
\* a pending evolute or rev_parallel.
C14_EmptyAfterFlush ==
    SubpathEnded => ContourEmpty(ctx.forward_path) /\ ContourEmpty(ctx.backward_path)

\* C14 witness: a curve whose forward contour lies wholly behind its cusp
\* was followed by a MoveTo, and the MoveTo left the curve's backward
\* main_path and the pending evolute of its forward contour in place
C14_CurveKeptAcrossMoveTo ==
    /\ Len(path) = 2
    /\ path[1][1] = "QuadTo" /\ path[1][2] # path[1][3]
    /\ path[2][1] = "MoveTo"
    /\ ctx.output.path = <<>>
    /\ ctx.forward_path.evolute # None
    /\ ctx.backward_path.main_path.path # <<>>


(***************************************************************************)
(* Properties of the arithmetic of CubicToEulerIter (FitSpec).             *)
(***************************************************************************)
\* the pass at the test is about to execute self.t0 *= 2
AboutToDouble == fpc = "test" /\ ~ErrLeq(cand.err, iter.tolerance)

\* the pass at the test is about to accept and merge by 1 << shift
AboutToMerge == fpc = "test" /\ ErrLeq(cand.err, iter.tolerance)

\* C15: dt is always exactly 2^-k with k >= 0; neither self.t0 *= 2 nor the
\* merge factor 1 << shift (an i32) overflows; and next returns None only
\* when t0 * dt is exactly 1.0.
C15_PowersOfTwoNoOverflow ==
    fpc # "off" =>
        /\ 0 <= iter.e /\ iter.e < DtZero
        /\ AboutToDouble => ~U64DoubleOverflows(iter.t0)
        /\ AboutToMerge => TrailingZeros(U64Val(iter.t0) + 1) < 31
        /\ fpc = "none" => AtEnd(iter)

\* C15 witness: in a build with overflow checks next has panicked at
\* self.t0 *= 2, t0 having reached 2^63
C15_DoublingOverflowed ==
    /\ build = "debug"
    /\ fpc = "panicked"
    /\ iter.t0 = [m |-> 1, s |-> T0Bits - 1]
    /\ ~ErrLeq(cand.err, iter.tolerance)



(***************************************************************************)
(* Properties of StrokeContour::do_euler_seg, seen at the steps of         *)
(* stroke_undashed (Spec) that stroke a quadratic fitted by one segment.   *)
(***************************************************************************)
\* the context after the do_join of QuadTo(q[1], q[2])
QuadJoined(q) ==
    do_join(backend, ctx, style, pathseg_tangents_quad(<<ctx.last_pt, q[1], q[2]>>)[1])

\* the step is QuadTo(q[1], q[2]), the curve fitted by the one segment of fit
QuadStepWith(q, fit) ==
    /\ pc = "run"
    /\ path' = Append(path, <<"QuadTo", q[1], q[2]>>)
    /\ Len(fit) = 1
    /\ ctx' = [do_cubic(backend, QuadJoined(q), style,
                        QuadBez_raise(<<ctx.last_pt, q[1], q[2]>>), fit)
                  EXCEPT !.last_tan = pathseg_tangents_quad(<<ctx.last_pt, q[1], q[2]>>)[2]]

\* the contour of a side: -1 is forward_path, 1 is backward_path
Side(c, side) == IF side = -1 THEN c.forward_path ELSE c.backward_path

\* the offset of a side
SideOffset(side) == side * (style.width \div 2)

\* cusp0 * cusp1 >= 0
SameSign(es, h) == Sgn(CuspTerms(es, h)[0]) * Sgn(CuspTerms(es, h)[1000]) >= 0

\* cusp0 / (cusp0 - cusp1), to the nearest thousandth
CuspParam(es, h) ==
    RDiv(1000 * CuspTerms(es, h)[0], CuspTerms(es, h)[0] - CuspTerms(es, h)[1000])

\* a fresh temporary of StrokeContour::start
FreshAt(p) == LoweredPath_move_to(LoweredPath_default, p)

\* after is before, finalized, with the whole of es flattened onto main_path
\* and nothing pending
WholeOnMain(before, after, es, h) ==
    after = [main_path |-> L_lower_espc(backend, es,
                               StrokeContour_finalize(backend, before).main_path,
                               <<0, 1000>>, h, ctx.tolerance),
             rev_parallel |-> None, evolute |-> None]

\* after is before with main_path untouched and the whole of es on the
\* temporaries: the evolute from a line to es.eval_evolute(0.), the parallel
\* curve on rev_parallel
WholeBehindCusp(before, after, es, h) ==
    LET s == StrokeContour_start(before)
    IN  after = [main_path |-> before.main_path,
                 rev_parallel |-> Some(L_lower_espc(backend, es, s.rev_parallel[1],
                                                    <<0, 1000>>, h, ctx.tolerance)),
                 evolute |-> Some(L_lower_es_evolute(backend, es,
                                     LoweredPath_line_to(backend, s.evolute[1],
                                                         EulerSeg_eval_evolute(es, 0)),
                                     <<0, 1000>>, ctx.tolerance))]

\* P(before, after, es, h) holds at every QuadTo step fitted by one segment
\* es, on either contour, whenever Pre(es, h) does
AtEulerSegs(Pre(_, _), P(_, _, _, _)) ==
    \A q \in Quads(ctx.last_pt) :
        \A fit \in EulerFits(QuadBez_raise(<<ctx.last_pt, q[1], q[2]>>)) :
            \A side \in {-1, 1} :
                (QuadStepWith(q, fit) /\ Pre(fit[1], SideOffset(side))) =>
                    P(Side(QuadJoined(q), side), Side(ctx', side), fit[1], SideOffset(side))

\* the claim of C16 as it stands: whenever cusp0 * cusp1 >= 0 the whole
\* range [0, 1] is flattened onto main_path and no evolute or rev_parallel
\* is started
C16_SameSignWholeOnMain == [][AtEulerSegs(SameSign, WholeOnMain)]_vars

\* what do_euler_seg does when cusp0 * cusp1 >= 0
NoSplit(before, after, es, h) ==
    IF CuspTerms(es, h)[0] >= 0 THEN WholeOnMain(before, after, es, h)
    ELSE WholeBehindCusp(before, after, es, h)

\* C16 (amended): whenever cusp0 * cusp1 >= 0 do_euler_seg does not split the
\* range.  With cusp0 >= 0 the contour is finalized and the whole range [0, 1]
\* is flattened onto main_path, nothing pending; with cusp0 < 0 the whole
\* range lies behind the cusp: evolute and rev_parallel are started (if not
\* pending already), receive the whole range, and main_path is not touched.
C16_SameSignNoSplit == [][AtEulerSegs(SameSign, NoSplit)]_vars

\* C16 witness: a quarter turn has been stroked as first element whose cusp
\* terms are both negative on the forward contour and both positive on the
\* backward contour: the one is all on the temporaries, the other on main_path
C16_BothKindsOfSameSign ==
    /\ Len(path) = 1
    /\ path[1][1] = "QuadTo" /\ path[1][2] # path[1][3]
    /\ \E fit \in EulerFits(QuadBez_raise(<<Origin, path[1][2], path[1][3]>>)) :
          /\ Len(fit) = 1
          /\ CuspTerms(fit[1], SideOffset(-1))[0] < 0
          /\ CuspTerms(fit[1], SideOffset(-1))[1000] < 0
          /\ CuspTerms(fit[1], SideOffset(1))[0] > 0
          /\ CuspTerms(fit[1], SideOffset(1))[1000] > 0
          /\ ctx = AfterFirstQuad(path[1][2], path[1][3], fit)
    /\ ctx.forward_path.main_path.path = <<>>
    /\ ctx.forward_path.rev_parallel # None
    /\ ctx.backward_path.main_path.path # <<>>
    /\ ctx.backward_path.rev_parallel = None


\* cusp0 * cusp1 < 0
OppositeSigns(es, h) == Sgn(CuspTerms(es, h)[0]) * Sgn(CuspTerms(es, h)[1000]) < 0

\* the cusp ends the piece: [0, t] is on main_path of the finalized contour,
\* [t, 1] on temporaries started at the end of that piece, left pending
SplitMainFirst(before, after, es, h, t) ==
    LET m == L_lower_espc(backend, es, StrokeContour_finalize(backend, before).main_path,
                          <<0, t>>, h, ctx.tolerance)
    IN  after = [main_path |-> m,
                 rev_parallel |-> Some(L_lower_espc(backend, es, FreshAt(m.last_pt),
                                                    <<t, 1000>>, h, ctx.tolerance)),
                 evolute |-> Some(L_lower_es_evolute(backend, es, FreshAt(m.last_pt),
                                                     <<t, 1000>>, ctx.tolerance))]

\* the cusp begins the piece: [0, t] is on the temporaries, the evolute led
\* by a line to es.eval_evolute(0.); these are finalized, then [t, 1] is on
\* main_path and nothing is pending
SplitCuspFirst(before, after, es, h, t) ==
    LET s  == StrokeContour_start(before)
        ev == L_lower_es_evolute(backend, es,
                  LoweredPath_line_to(backend, s.evolute[1], EulerSeg_eval_evolute(es, 0)),
                  <<0, t>>, ctx.tolerance)
        rv == L_lower_espc(backend, es, s.rev_parallel[1], <<0, t>>, h, ctx.tolerance)
        f  == StrokeContour_finalize(backend,
                  [main_path |-> before.main_path, rev_parallel |-> Some(rv),
                   evolute |-> Some(ev)])
    IN  after = [main_path |-> L_lower_espc(backend, es, f.main_path, <<t, 1000>>,
                                            h, ctx.tolerance),
                 rev_parallel |-> None, evolute |-> None]

\* what do_euler_seg does when cusp0 * cusp1 < 0
SplitAtCusp(before, after, es, h) ==
    /\ 0 < CuspParam(es, h)
    /\ CuspParam(es, h) < 1000
    /\ IF CuspTerms(es, h)[0] >= 0
       THEN SplitMainFirst(before, after, es, h, CuspParam(es, h))
       ELSE SplitCuspFirst(before, after, es, h, CuspParam(es, h))

\* C17: when cusp0 and cusp1 have opposite signs, t* = cusp0 / (cusp0 - cusp1)
\* lies strictly between 0 and 1; with cusp0 >= 0 the range [0, t*] is lowered
\* onto main_path and [t*, 1] onto evolute and rev_parallel; with cusp0 < 0
\* [0, t*] goes onto evolute and rev_parallel, which are then finalized, and
\* [t*, 1] onto main_path.
C17_OppositeSignsSplitAtCusp == [][AtEulerSegs(OppositeSigns, SplitAtCusp)]_vars

\* C17 witness: a curve whose curvature changes sign has been stroked as first
\* element, fitted by one segment: the forward contour begins behind a cusp
\* and has finalized it, the backward contour ends behind one, still pending
C17_SplitOnBothContours ==
    /\ Len(path) = 1
    /\ path[1][1] = "QuadTo" /\ path[1][2] # path[1][3]
    /\ \E fit \in EulerFits(QuadBez_raise(<<Origin, path[1][2], path[1][3]>>)) :
          /\ Len(fit) = 1
          /\ CuspTerms(fit[1], SideOffset(-1))[0] < 0
          /\ CuspTerms(fit[1], SideOffset(-1))[1000] > 0
          /\ CuspTerms(fit[1], SideOffset(1))[0] > 0
          /\ CuspTerms(fit[1], SideOffset(1))[1000] < 0
          /\ CuspParam(fit[1], SideOffset(-1)) \in 1..999
          /\ CuspParam(fit[1], SideOffset(1)) \in 1..999
          /\ ctx = AfterFirstQuad(path[1][2], path[1][3], fit)
    /\ ctx.forward_path.main_path.path # <<>>
    /\ ctx.forward_path.rev_parallel = None
    /\ ctx.backward_path.rev_parallel # None
    /\ ctx.backward_path.evolute # None


(***************************************************************************)
(* Properties of StrokeContour::finalize, move_to and line_to, seen at the *)
(* LineTo steps of stroke_undashed (Spec).                                 *)
(***************************************************************************)
\* the evolute closed with a line to the end of rev_parallel
ClosedEvolute(sc) ==
    sc.evolute[1].path
        \o <<L_line(backend, sc.evolute[1].last_pt, sc.rev_parallel[1].last_pt)>>

\* main_path with what is pending spliced in: the closed evolute, rev_parallel
\* reversed, the closed evolute again; main_path itself when nothing is pending
Spliced(sc) ==
    IF sc.evolute = None /\ sc.rev_parallel = None THEN sc.main_path
    ELSE [path |-> sc.main_path.path \o ClosedEvolute(sc)
                      \o RevPath(backend, sc.rev_parallel[1].path) \o ClosedEvolute(sc),
          last_pt |-> sc.rev_parallel[1].last_pt]

\* the contour sc after line_to(p)
LineOn(sc, p) ==
    [main_path |-> [path |-> Append(Spliced(sc).path,
                                    L_line(backend, Spliced(sc).last_pt, p)),
                    last_pt |-> p],
     rev_parallel |-> None, evolute |-> None]

\* the contour sc after move_to(p)
MoveOn(sc, p) ==
    [main_path |-> [path |-> Spliced(sc).path, last_pt |-> p],
     rev_parallel |-> None, evolute |-> None]

\* the step is LineTo(p1) of non-zero length
LineStep(p1) ==
    /\ pc = "run"
    /\ path' = Append(path, <<"LineTo", p1>>)
    /\ p1 # ctx.last_pt

\* the contour of a side after the step LineTo(p1), where do_join and do_line
\* reach it through move_to and line_to only
LineStepOn(p1, side) ==
    LET p0 == ctx.last_pt
        tan == VSub(p1, p0)
        norm == VScale(StrokeNorm(style, tan), side, 1)
        cross == VCross(ctx.last_tan, tan)
        dot == VDot(ctx.last_tan, tan)
        before == Side(ctx, side)
        after == Side(ctx', side)
    IN  IF StrokeContour_is_empty(ctx.forward_path)
        THEN after = LineOn(MoveOn(before, VAdd(p0, norm)), VAdd(p1, norm))
        ELSE IF ~JoinNeeded(ctx, style, cross, dot)
        THEN after = LineOn(before, VAdd(p1, norm))
        ELSE IF style.join = "Bevel"
                  \/ (style.join = "Round" /\ (Atan2(cross, dot) > 0) = (side = 1))
        THEN after = LineOn(LineOn(before, VAdd(p0, norm)), VAdd(p1, norm))
        ELSE TRUE

\* C18: finalize with a cusp pending closes the evolute with a line to the end
\* of rev_parallel, appends to main_path the evolute, rev_parallel reversed and
\* the evolute again, and clears both temporaries; with nothing pending it
\* changes nothing.  line_to and move_to finalize before they touch
\* main_path: at every LineTo step a contour reached through them is what was
\* there, spliced, followed by the new lines.
C18_FinalizeSplicesBeforeLines ==
    [][\A p1 \in LinePts : \A side \in {-1, 1} :
          LineStep(p1) => LineStepOn(p1, side)]_vars

\* C18 witness: after a curve that left a cusp pending on the backward
\* contour a line has been stroked under Join::Bevel; the contour now holds
\* the splice and the two lines, and nothing is pending
C18_PendingCuspSpliced ==
    /\ style.join = "Bevel"
    /\ Len(path) = 2
    /\ path[1][1] = "QuadTo" /\ path[1][2] # path[1][3]
    /\ path[2][1] = "LineTo"
    /\ \E fit \in EulerFits(QuadBez_raise(<<Origin, path[1][2], path[1][3]>>)) :
          LET c1 == AfterFirstQuad(path[1][2], path[1][3], fit)
          IN  /\ c1.backward_path.evolute # None
              /\ c1.backward_path.rev_parallel[1].path # <<>>
              /\ ~StrokeContour_is_empty(c1.forward_path)
              /\ Len(ctx.backward_path.main_path.path)
                   = Len(Spliced(c1.backward_path).path) + 2
              /\ Len(Spliced(c1.backward_path).path)
                   > Len(c1.backward_path.main_path.path) + 2
    /\ ctx.backward_path.evolute = None
    /\ ctx.backward_path.rev_parallel = None


(***************************************************************************)
(* Properties of StrokeCtx::do_join, seen at the steps of stroke_undashed  *)
(* (Spec) that begin with it.                                              *)
(***************************************************************************)
\* the step is a LineTo or a QuadTo that begins with do_join(style, tan)
JoinStep(tan) ==
    /\ pc = "run"
    /\ \/ /\ tan # Origin
          /\ path' = Append(path, <<"LineTo", VAdd(ctx.last_pt, tan)>>)
       \/ \E q \in Quads(ctx.last_pt) :
             /\ tan = pathseg_tangents_quad(<<ctx.last_pt, q[1], q[2]>>)[1]
             /\ path' = Append(path, <<"QuadTo", q[1], q[2]>>)

\* the tangents of the LineTo and QuadTo steps open in the current state
JoinTangents ==
    {VSub(p1, ctx.last_pt) : p1 \in LinePts}
        \cup {pathseg_tangents_quad(<<ctx.last_pt, q[1], q[2]>>)[1] : q \in Quads(ctx.last_pt)}

\* do_join(style, tan) is not on the first segment and its turn is not below
\* the threshold
JoinMade(tan) ==
    /\ ~StrokeContour_is_empty(ctx.forward_path)
    /\ JoinNeeded(ctx, style, VCross(ctx.last_tan, tan), VDot(ctx.last_tan, tan))

\* the side whose main_path the Join::Round arm hands to round_join
RoundArcSide(tan) ==
    IF Atan2(VCross(ctx.last_tan, tan), VDot(ctx.last_tan, tan)) > 0 THEN -1 ELSE 1

\* nothing is pending on the contour
Finalized(sc) == sc.evolute = None /\ sc.rev_parallel = None

\* C19: whenever do_join appends a Round-join arc to a contour's main_path
\* (forward when angle > 0, backward otherwise) that contour has no pending
\* evolute or rev_parallel at that moment.
C19_RoundArcOnFinalizedContour ==
    [][\A tan \in JoinTangents :
          (JoinStep(tan) /\ style.join = "Round" /\ JoinMade(tan)) =>
              Finalized(Side(ctx, RoundArcSide(tan)))]_vars

\* the context after LineTo((100, 0)) and QuadTo(q1, q2) as first elements,
\* the curve fitted by fit
AfterLineAndQuad(q1, q2, fit) ==
    LET tan == <<100, 0>>
        c0 == do_line(backend,
                  [do_join(backend, StrokeCtx_new(Tolerance), style, tan)
                      EXCEPT !.last_tan = tan],
                  style, tan, tan)
        qb == <<c0.last_pt, q1, q2>>
        tans == pathseg_tangents_quad(qb)
    IN  [do_cubic(backend, do_join(backend, c0, style, tans[1]), style,
                  QuadBez_raise(qb), fit)
            EXCEPT !.last_tan = tans[2]]

\* C19 witness: after a line, a quarter turn tighter than the half width left
\* its whole forward side pending behind a cusp; then a line to (150, 5)
\* turned left under Join::Round: the arc of the join was put on the forward
\* main_path ahead of the pending pieces, and the splice of those came after
\* it, with the line of do_line
C19_ArcAheadOfPendingCusp ==
    /\ style.join = "Round"
    /\ Len(path) = 3
    /\ path[1] = <<"LineTo", <<100, 0>>>>
    /\ path[2][1] = "QuadTo" /\ path[2][2] # path[2][3]
    /\ path[3] = <<"LineTo", <<150, 5>>>>
    /\ \E fit \in EulerFits(QuadBez_raise(<<<<100, 0>>, path[2][2], path[2][3]>>)) :
          LET c1 == AfterLineAndQuad(path[2][2], path[2][3], fit)
              tan == VSub(<<150, 5>>, c1.last_pt)
              norm == StrokeNorm(style, tan)
              angle == Atan2(VCross(c1.last_tan, tan), VDot(c1.last_tan, tan))
              arc == round_join(backend, c1.forward_path.main_path, Tolerance,
                                c1.last_pt, norm, angle)
          IN  /\ Len(fit) = 1
              /\ CuspTerms(fit[1], SideOffset(-1))[0] < 0
              /\ CuspTerms(fit[1], SideOffset(-1))[1000] < 0
              /\ angle > 0
              /\ c1.forward_path.evolute # None
              /\ c1.forward_path.rev_parallel[1].path # <<>>
              /\ c1.forward_path.main_path.last_pt
                    # c1.forward_path.rev_parallel[1].last_pt
              /\ Len(arc.path) > Len(c1.forward_path.main_path.path)
              /\ ctx.forward_path
                    = LineOn([c1.forward_path EXCEPT !.main_path = arc],
                             VSub(<<150, 5>>, norm))


\* the pen after the first i elements of path: the current point and the
\* start point of the subpath
RECURSIVE PenAfter(_)
PenAfter(i) ==
    IF i = 0 THEN [pt |-> Origin, start |-> Origin]
    ELSE LET el == path[i]
             b == PenAfter(i - 1)
         IN  CASE el[1] = "MoveTo" -> [pt |-> el[2], start |-> el[2]]
               [] el[1] = "ClosePath" -> [b EXCEPT !.pt = b.start]
               [] OTHER -> [b EXCEPT !.pt = el[Len(el)]]

\* the last element of path stroked a segment of the current subpath: it is
\* a LineTo, QuadTo or CurveTo with a point away from where the pen was
SegmentStroked ==
    /\ path # <<>>
    /\ path[Len(path)][1] \in {"LineTo", "QuadTo", "CurveTo"}
    /\ \E i \in 2..Len(path[Len(path)]) :
          path[Len(path)][i] # PenAfter(Len(path) - 1).pt

\* the turn from ctx.last_tan to tan is below the join threshold:
\* dot > 0 and |cross| < hypot * join_thresh, join_thresh = 2 * tolerance / width
BelowJoinThresh(tan) ==
    LET cross == VCross(ctx.last_tan, tan)
        dot == VDot(ctx.last_tan, tan)
    IN  /\ dot > 0
        /\ Abs(cross) * style.width < ISqrt(cross * cross + dot * dot) * 2 * ctx.tolerance

\* the step LineTo(p1) put no join geometry on either contour: each holds
\* what it held, spliced, and the one line of do_line
NoJoinGeometry(p1) ==
    \A side \in {-1, 1} :
        /\ Finalized(Side(ctx', side))
        /\ Len(Side(ctx', side).main_path.path) = Len(Spliced(Side(ctx, side)).path) + 1

\* C20: do_join on a non-first segment emits no join geometry exactly when
\* the turn is below the threshold (dot > 0 and |cross| < hypot * join_thresh,
\* join_thresh = 2 * tolerance / width); then neither contour gains a
\* primitive, and a turn of 90 degrees or more (dot <= 0) is never elided.
C20_JoinElidedIffBelowThreshold ==
    [][\A p1 \in LinePts :
          (LineStep(p1) /\ SegmentStroked) =>
              (NoJoinGeometry(p1) <=> BelowJoinThresh(VSub(p1, ctx.last_pt)))]_vars

\* the same where the forward contour's main_path holds a primitive, which is
\* how do_join tells a non-first segment
JoinElidedIffBelowThresholdOnMain ==
    [][\A p1 \in LinePts :
          (LineStep(p1) /\ ~StrokeContour_is_empty(ctx.forward_path)) =>
              (NoJoinGeometry(p1) <=> BelowJoinThresh(VSub(p1, ctx.last_pt)))]_vars

\* C20 witness: a quarter turn tighter than the half width was stroked first
\* and left the forward main_path empty; the line back to the origin turns by
\* more than 90 degrees, yet do_join took it for a first segment: no join was
\* made, the contours were only moved, and start_tan was overwritten
C20_SharpTurnElided ==
    /\ Len(path) = 2
    /\ path[1][1] = "QuadTo" /\ path[1][2] # path[1][3]
    /\ path[2] = <<"LineTo", Origin>>
    /\ \E fit \in EulerFits(QuadBez_raise(<<Origin, path[1][2], path[1][3]>>)) :
          LET c1 == AfterFirstQuad(path[1][2], path[1][3], fit)
              tan == VSub(Origin, c1.last_pt)
              norm == StrokeNorm(style, tan)
          IN  /\ StrokeContour_is_empty(c1.forward_path)
              /\ c1.forward_path.evolute # None
              /\ VDot(c1.last_tan, tan) <= 0
              /\ c1.start_tan # tan
              /\ ctx.start_tan = tan
              /\ ctx.backward_path
                    = LineOn(MoveOn(c1.backward_path, VAdd(c1.last_pt, norm)), norm)
              /\ ctx.forward_path
                    = LineOn(MoveOn(c1.forward_path, VSub(c1.last_pt, norm)), VNeg(norm))


(***************************************************************************)
(* Properties of StrokeCtx::do_linear, seen at the CurveTo steps of        *)
(* stroke_undashed (Spec) whose cubic is linear.                           *)
(***************************************************************************)
\* the roots of the derivative of the projected cubic that do_linear keeps:
\* those strictly inside (EPSILON, 1 - EPSILON)
RetainedRoots(c) ==
    LET p == CubicProj(c)
        Inside(t) == t[1] > 0 /\ t[1] < t[2]
    IN  SelectSeq(solve_quadratic(p[2] - p[1], 2 * p[3] - 4 * p[2] + 2 * p[1],
                                  p[4] - 3 * p[3] + 3 * p[2] - p[1]),
                  Inside)

\* the end points of the pieces of a linear cubic: its cusps, then p3
LinearPieces(c) ==
    [i \in 1..Len(RetainedRoots(c)) |->
        RefMap(c, Bezier1D(CubicProj(c), RetainedRoots(c)[i]))] \o <<c[4]>>

\* the caller's width with Join::Round
RoundStyle == [style EXCEPT !.join = "Round"]

\* a Round join and one straight line to each of pts in turn
RECURSIVE RoundJoinedLines(_, _)
RoundJoinedLines(c, pts) ==
    IF pts = <<>> THEN c
    ELSE LET tan == VSub(Head(pts), c.last_pt)
         IN  RoundJoinedLines(
                 [do_line(backend, do_join(backend, c, RoundStyle, tan), style, tan,
                          Head(pts))
                     EXCEPT !.last_tan = tan],
                 Tail(pts))

\* the step is CurveTo(k) with a cubic that do_cubic hands to do_linear
LinearCurveStep(k) ==
    /\ pc = "run"
    /\ path' = Append(path, <<"CurveTo", k[1], k[2], k[3]>>)
    /\ IsLinearCubic(<<ctx.last_pt, k[1], k[2], k[3]>>, ctx.tolerance)

\* C21: in do_linear every join at a synthetic cusp point (an interior root
\* t, 1e-6 < t < 1 - 1e-6) is a Round join whatever join the caller's style
\* has, and the pieces between cusps are straight lines, one do_line per
\* piece: as many lines as retained roots plus one, the last ending at p3.
C21_LinearCubicRoundJoinedLines ==
    [][\A k \in Curves(ctx.last_pt) :
          LinearCurveStep(k) =>
              LET c == <<ctx.last_pt, k[1], k[2], k[3]>>
                  tans == pathseg_tangents_cubic(c)
                  joined == [do_join(backend, ctx, style, tans[1])
                                EXCEPT !.last_tan = tans[1]]
                  lines == RoundJoinedLines(joined, LinearPieces(c))
              IN  /\ Len(LinearPieces(c)) = Len(RetainedRoots(c)) + 1
                  /\ ctx' = [do_join(backend, lines, RoundStyle, tans[2])
                                EXCEPT !.last_tan = tans[2]]
                  /\ ctx'.last_pt = k[3]]_vars

\* C21 witness: under Join::Miter with the arc backend the cubic that goes out
\* to (100,100) and back on itself has been stroked as first element: it has
\* one cusp, two lines, and the join at the cusp is an arc on the forward
\* contour
C21_CuspJoinedRoundUnderMiter ==
    /\ style.join = "Miter"
    /\ backend = "Arc"
    /\ path = <<<<"CurveTo", <<100, 100>>, <<100, 100>>, Origin>>>>
    /\ Len(RetainedRoots(<<Origin, <<100, 100>>, <<100, 100>>, Origin>>)) = 1
    /\ ctx.last_pt = Origin
    /\ \E i \in 1..Len(ctx.forward_path.main_path.path) :
          ctx.forward_path.main_path.path[i].k0 # 0
    /\ \A i \in 1..Len(ctx.backward_path.main_path.path) :
          ctx.backward_path.main_path.path[i].k0 = 0


(***************************************************************************)
(* Properties of the interval bookkeeping of CubicToEulerIter (FitSpec).   *)
(***************************************************************************)
\* a step of next that accepts the candidate at the test
AcceptStep == AboutToMerge /\ fpc' # "test"

\* a step of next that rejects the candidate at the test
RejectStep == AboutToDouble /\ fpc' # "test"

\* the accepting step adds 1 to t0, shifts it right by its trailing zeros tz
\* and multiplies dt by 2^tz: the new t0 is odd and the new lower bound
\* t0 * dt is the upper bound of the accepted interval
AcceptExact ==
    LET v == U64Val(iter.t0) + 1
        tz == TrailingZeros(v)
    IN  /\ U64Val(iter'.t0) * 2 ^ tz = v
        /\ iter'.e = iter.e - tz
        /\ iter'.e >= 0
        /\ U64Val(iter'.t0) % 2 = 1
        /\ U64Val(iter'.t0) * 2 ^ iter.e = v * 2 ^ iter'.e
        /\ iter.e <= DtGrid =>
              U64Val(iter'.t0) * cand.t1.t[2] = cand.t1.t[1] * 2 ^ iter'.e

\* the rejecting step doubles t0 and halves dt: the lower bound t0 * dt is
\* the same number and the width dt is half of what it was
RejectExact ==
    /\ fpc' = "loop"
    /\ ~U64DoubleOverflows(iter.t0)
    /\ iter'.t0 = IF iter.t0.m = 0 THEN iter.t0
                  ELSE [m |-> iter.t0.m, s |-> iter.t0.s + 1]
    /\ iter'.e = iter.e + 1
    /\ iter'.e < DtZero

\* the candidate interval at the test, from the local t0 to t1, lies in [0, 1]
CandInUnit ==
    /\ 0 <= t0f.n
    /\ ~FracLess(cand.t1.t, <<t0f.n, 2 ^ t0f.ec>>)
    /\ ~FracLess(<<1, 1>>, cand.t1.t)

\* C22: on accepting a candidate next advances t0 by 1, shifts it right by
\* its trailing-zero count tz and multiplies dt by 2^tz, so that the new lower
\* bound t0 * dt is the accepted interval's upper bound and the new t0 is odd;
\* on rejecting it doubles t0 and halves dt, which leaves the lower bound
\* unchanged and halves the candidate width.  Every candidate interval lies
\* inside [0, 1].
C22_AdvanceAndSubdivideExact ==
    [][/\ AcceptStep => AcceptExact
       /\ RejectStep => RejectExact
       /\ fpc = "test" => CandInUnit]_vars

\* C22 witness: in a build without overflow checks the loop of next goes on
\* after self.t0 *= 2 has wrapped to 0 while dt is still a power of two: the
\* lower bound self.t0 * dt is now 0, not the local t0 the candidates start
\* from
C22_LowerBoundLostInWrap ==
    /\ build = "release"
    /\ fpc = "loop"
    /\ iter.t0 = [m |-> 0, s |-> 0]
    /\ t0f.n > 0
    /\ iter.e > T0Bits - 1
    /\ iter.e < DtZero


(***************************************************************************)
(* Properties of the regimes of flatten_offset (FlatSpec).                 *)
(***************************************************************************)
\* |k1| < 1e-3 for the segment of the call
BelowK1Thresh == Abs(fl.es.params.k1) < K1_THRESH

\* |dist_scaled| < 1e-3 for the call, dist_scaled = offset * ch / scale
BelowDistThresh ==
    Abs(fl.offset) * fl.es.params.ch < VHypot(VSub(fl.es.p0, fl.es.p1)) * DIST_THRESH

\* C23: flatten_offset selects exactly one regime per call, testing LowK1
\* (|k1| < 1e-3) first, then LowDist (|dist_scaled| < 1e-3), else Normal;
\* so where it divides by a (LowDist: a = k1; Normal: a = -2 * dist_scaled *
\* k1) the divisor is not zero and is bounded away from zero: |a| >= 1e-3 in
\* LowDist, |a| >= 2e-6 in Normal.
C23_OneRegimeDivisorNonZero ==
    flpc # "off" =>
        LET k1 == fl.es.params.k1
            dist_scaled == RDiv(fl.offset * fl.es.params.ch,
                                VHypot(VSub(fl.es.p0, fl.es.p1)))
        IN  /\ fl.lo.robust \in {"LowK1", "LowDist", "Normal"}
            /\ fl.lo.robust = "LowK1" <=> BelowK1Thresh
            /\ fl.lo.robust = "LowDist" <=> (~BelowK1Thresh /\ BelowDistThresh)
            /\ fl.lo.robust = "Normal" <=> (~BelowK1Thresh /\ ~BelowDistThresh)
            /\ fl.lo.robust = "LowDist" =>
                  fl.lo.a = k1 /\ Abs(fl.lo.a) >= K1_THRESH
            /\ fl.lo.robust = "Normal" =>
                  /\ fl.lo.a = RDiv(-2 * dist_scaled * k1, 10000)
                  /\ fl.lo.a # 0
                  /\ Abs(2 * dist_scaled * k1) >= 2 * DIST_THRESH * K1_THRESH

\* C23 witness: a call with k1 = 0.012, just above the k1 threshold, and the
\* offset of a whole chord has returned from the Normal regime after passes
\* of the loop that divided by a = -0.024
C23_NormalRegimeNearK1Thresh ==
    /\ flpc = "returned"
    /\ fl.impl = "flatten"
    /\ fl.lo.robust = "Normal"
    /\ fl.es.params.k1 = 120
    /\ fl.lo.a = -240
    /\ Len(fl.out) >= 2


(***************************************************************************)
(* Properties of the Line backend's lower_arc, on the arcs that round_join *)
(* builds in the states of stroke_undashed (Spec).                         *)
(***************************************************************************)
\* the arc round_join builds for the Round join of a segment with tangent
\* tan: from the end of the contour's main_path to p0 -/+ norm, angle -angle
JoinArc(tan) ==
    ArcSegment_new(Side(ctx, RoundArcSide(tan)).main_path.last_pt,
                   VAdd(ctx.last_pt, VScale(StrokeNorm(style, tan), RoundArcSide(tan), 1)),
                   -Atan2(VCross(ctx.last_tan, tan), VDot(ctx.last_tan, tan)))

\* the arcs of the Round joins open in the current state
JoinArcs == {JoinArc(tan) : tan \in JoinTangents \ {Origin}}

\* max(1, ceil(n_frac)), n_frac = |angle| * sqrt(chord / (8 * tol)): the least
\* n >= 1 with n^2 * 8 * tol >= angle^2 * chord (the angle in milliradians)
ArcLineCount(arc, tol) ==
    LET chord == VHypot(VSub(arc.p1, arc.p0))
        Enough(n) == n * n * 8000 * tol >= ((arc.k0 * arc.k0) \div 1000) * chord
    IN  CHOOSE n \in 1..(Abs(arc.k0) * (chord + 1) + 1) :
            Enough(n) /\ (n = 1 \/ ~Enough(n - 1))

\* chain is a contiguous chain of straight lines from arc.p0 to arc.p1
LineChain(chain, arc) ==
    /\ chain # <<>>
    /\ chain[1].p0 = arc.p0
    /\ chain[Len(chain)].p1 = arc.p1
    /\ \A i \in 1..Len(chain) : chain[i].k0 = 0
    /\ Contiguous(chain)

\* C24: the Line backend's lower_arc replaces an arc by exactly
\* max(1, ceil(n_frac)) straight lines, n_frac = |angle| * sqrt(chord / (8 *
\* tol)); the lines are a contiguous chain that starts at arc.p0 and ends
\* exactly at arc.p1.
C24_ArcLoweredToLineChain ==
    \A arc \in JoinArcs :
        /\ Len(L_lower_arc("Line", arc, ctx.tolerance)) = ArcLineCount(arc, ctx.tolerance)
        /\ LineChain(L_lower_arc("Line", arc, ctx.tolerance), arc)

\* C24 witness: with the Line backend and Join::Round the line to (100, 0)
\* was followed by the line back to the origin; the half turn of the join is
\* on the forward contour as a chain of four lines from (100, -5) to (100, 5)
C24_HalfTurnInFourLines ==
    /\ backend = "Line"
    /\ style.join = "Round"
    /\ path = <<<<"LineTo", <<100, 0>>>>, <<"LineTo", Origin>>>>
    /\ ArcLineCount(ArcSegment_new(<<100, -5>>, <<100, 5>>, -Pi), Tolerance) = 4
    /\ Len(ctx.forward_path.main_path.path) = 6
    /\ LineChain(SubSeq(ctx.forward_path.main_path.path, 2, 5),
                 ArcSegment_new(<<100, -5>>, <<100, 5>>, -Pi))


(***************************************************************************)
(* Properties of Lowering::reverse and LoweredPath::extend_rev, on the     *)
(* paths of the contours in the states of stroke_undashed (Spec).          *)
(***************************************************************************)
\* the paths a contour holds
ContourPaths(sc) ==
    {sc.main_path}
        \cup (IF sc.evolute = None THEN {} ELSE {sc.evolute[1]})
        \cup (IF sc.rev_parallel = None THEN {} ELSE {sc.rev_parallel[1]})

\* the paths of the current state
StatePaths == ContourPaths(ctx.forward_path) \cup ContourPaths(ctx.backward_path)

\* reverse flips seg: the end points swapped, the turning angle negated, and
\* a second reverse gives seg back
Flips(seg) ==
    /\ L_reverse(backend, seg).p0 = seg.p1
    /\ L_reverse(backend, seg).p1 = seg.p0
    /\ L_reverse(backend, seg).k0 = -seg.k0
    /\ L_end_point(L_reverse(backend, seg)) = seg.p0
    /\ L_reverse(backend, L_reverse(backend, seg)) = seg

\* extend_rev of other onto lp appends a contiguous chain of the length of
\* other, from the end of other to its start, and leaves the cursor there
AppendsReversed(lp, other) ==
    LET r == LoweredPath_extend_rev(backend, lp, other)
        n == Len(other.path)
        added == SubSeq(r.path, Len(lp.path) + 1, Len(r.path))
    IN  /\ Len(r.path) = Len(lp.path) + n
        /\ SubSeq(r.path, 1, Len(lp.path)) = lp.path
        /\ Contiguous(added)
        /\ added[1].p0 = other.path[n].p1
        /\ added[n].p1 = other.path[1].p0
        /\ r.last_pt = other.path[1].p0

\* C25: for both backends reverse flips a primitive's direction (start and
\* end point swapped, an arc's signed angle negated) and reverse applied
\* twice is the identity; so extend_rev of a contiguous chain from A to B
\* appends a contiguous chain of the same length from B to A and sets the
\* cursor to A.
C25_ReverseFlipsAndExtendRevMirrors ==
    \A other \in StatePaths :
        /\ \A i \in 1..Len(other.path) : Flips(other.path[i])
        /\ (other.path # <<>> /\ Contiguous(other.path)) =>
              AppendsReversed(ctx.forward_path.main_path, other)

\* C25 witness: with the arc backend a line and a curve have been stroked and
\* flushed; the backward contour, a contiguous chain of a line and arcs, is
\* in the output in reverse order with every primitive reversed
C25_BackwardArcsReversedInOutput ==
    /\ pc = "done"
    /\ backend = "Arc"
    /\ Len(path) = 2
    /\ path[1] = <<"LineTo", <<100, 0>>>>
    /\ path[2][1] = "QuadTo" /\ path[2][2] # path[2][3]
    /\ \E fit \in EulerFits(QuadBez_raise(<<<<100, 0>>, path[2][2], path[2][3]>>)) :
          LET back == AfterLineAndQuad(path[2][2], path[2][3], fit).backward_path.main_path.path
          IN  /\ Len(back) >= 2
              /\ Contiguous(back)
              /\ \E i \in 1..Len(back) : back[i].k0 # 0
              /\ \E k \in 1..Len(Out) :
                    /\ k + Len(back) - 1 <= Len(Out)
                    /\ SubSeq(Out, k, k + Len(back) - 1) = RevPath(backend, back)

\* segment geometry has been built on contour sc: primitives in main_path or
\* in a pending evolute or rev_parallel
HasGeometry(sc) ==
    \/ sc.main_path.path # <<>>
    \/ sc.evolute # None /\ sc.evolute[1].path # <<>>
    \/ sc.rev_parallel # None /\ sc.rev_parallel[1].path # <<>>

\* the step flushes the current subpath: a MoveTo, a ClosePath or the
\* finish at the end of the input
FlushStep ==
    \/ pc = "run" /\ pc' = "done"
    \/ \E p \in MovePts : path' = Append(path, <<"MoveTo", p>>)
    \/ path' = Append(path, <<"ClosePath">>)

\* C26: a flush (the next MoveTo, ClosePath, the end of the input) of a
\* subpath for which segment geometry has been built, main-path primitives
\* or pending evolute or reverse-parallel primitives, appends at least one
\* primitive to the output: finish and finish_closed never drop it.
C26_FlushNeverDropsGeometry ==
    [][(FlushStep /\ (HasGeometry(ctx.forward_path) \/ HasGeometry(ctx.backward_path)))
          => Len(ctx'.output.path) > Len(ctx.output.path)]_vars

\* C26 witness: MoveTo(100, 0) and a quarter turn have been stroked with the
\* line backend and the input has ended; the turn's backward contour and the
\* pending evolute of its forward contour are still in the builder and
\* nothing is in the output
C26_BuiltGeometryNeverEmitted ==
    /\ pc = "done"
    /\ backend = "Line"
    /\ Len(path) = 2
    /\ path[1] = <<"MoveTo", <<100, 0>>>>
    /\ path[2][1] = "QuadTo" /\ path[2][2] # path[2][3]
    /\ HasGeometry(ctx.backward_path)
    /\ ctx.forward_path.main_path.path = <<>>
    /\ ctx.forward_path.evolute # None
    /\ Out = <<>>


\* C27: within one subpath do_join assigns start_tan and start_norm only
\* before any segment of the subpath has been processed: once a segment has
\* been stroked, no later step of the subpath overwrites start_tan or
\* start_norm.
C27_StartFrameSetOnce ==
    [][SegmentStroked =>
          /\ ctx'.start_tan = ctx.start_tan
          /\ ctx'.start_norm = ctx.start_norm]_vars

\* C27 witness: a quarter turn tighter than the half width opened the subpath
\* and a line to (100, 100) followed; start_tan and start_norm are those of
\* the line, not those of the turn's first tangent
C27_StartFrameOfSecondSegment ==
    /\ Len(path) = 2
    /\ path[1][1] = "QuadTo" /\ path[1][2] # path[1][3]
    /\ path[2] = <<"LineTo", <<100, 100>>>>
    /\ LET tan1 == pathseg_tangents_quad(<<Origin, path[1][2], path[1][3]>>)[1]
           tan2 == VSub(<<100, 100>>, path[1][3])
       IN  /\ tan1 # tan2
           /\ StrokeNorm(style, tan1) # StrokeNorm(style, tan2)
           /\ ctx.start_tan = tan2
           /\ ctx.start_norm = StrokeNorm(style, tan2)
           /\ ctx.start_pt = Origin


\* C28: in every reachable state each contour's main path, evolute path and
\* reverse-parallel path is contiguous by itself: every primitive starts
\* exactly where the one before it ends.
C28_ContourPathsContiguous == \A lp \in StatePaths : Contiguous(lp.path)


\* C28 witness: a quarter turn tighter than the half width and a line back to
\* the origin have been stroked with miter joins; the backward contour's
\* main path is a contiguous chain up to its last line, and that line starts
\* away from where the chain ends
C28_BreakInBackwardMainPath ==
    /\ Len(path) = 2
    /\ path[1][1] = "QuadTo" /\ path[1][2] # path[1][3]
    /\ path[2] = <<"LineTo", Origin>>
    /\ style.join = "Miter"
    /\ LET bp == ctx.backward_path.main_path.path
       IN  /\ Len(bp) >= 2
           /\ Contiguous(SubSeq(bp, 1, Len(bp) - 1))
           /\ bp[Len(bp)].p0 # bp[Len(bp) - 1].p1
           /\ bp[Len(bp)].p1 = ctx.backward_path.main_path.last_pt


\* the context of a ClosePath in front of finish_closed: the closing line
\* with its join when the pen is away from start_pt
ClosedCtx ==
    LET tangent == VSub(ctx.start_pt, ctx.last_pt)
    IN  IF ctx.last_pt # ctx.start_pt
        THEN do_line(backend,
                 [do_join(backend, ctx, style, tangent) EXCEPT !.last_tan = tangent],
                 style, tangent, ctx.start_pt)
        ELSE ctx

\* the closing join: the join from the last segment to start_tan
ClosingJoin == do_join(backend, ClosedCtx, style, ClosedCtx.start_tan)

\* the step is the ClosePath of a subpath whose forward contour has
\* main-path primitives
ClosePathStep ==
    /\ path' = Append(path, <<"ClosePath">>)
    /\ ClosedCtx.forward_path.main_path.path # <<>>

\* the step is the finish that follows a ClosePath: the next MoveTo or the
\* end of the input
FinishAfterClose ==
    /\ path # <<>>
    /\ path[Len(path)] = <<"ClosePath">>
    /\ \/ pc = "run" /\ pc' = "done"
       \/ \E p \in MovePts : path' = Append(path, <<"MoveTo", p>>)

NonZeroSegment(i) ==
    /\ path[i][1] \in {"LineTo", "QuadTo", "CurveTo"}
    /\ \E k \in 2..Len(path[i]) : path[i][k] # PenAfter(i - 1).pt

\* the current subpath, the elements after the last MoveTo or ClosePath, has
\* no segment of non-zero length
ZeroLengthSubpath ==
    \A i \in 1..Len(path) :
        (\A j \in i..Len(path) : path[j][1] \notin {"MoveTo", "ClosePath"})
            => ~NonZeroSegment(i)

\* el is a path element of zero length at the current point
ZeroLengthEl(el) ==
    \/ el = <<"LineTo", ctx.last_pt>>
    \/ el = <<"QuadTo", ctx.last_pt, ctx.last_pt>>
    \/ el = <<"CurveTo", ctx.last_pt, ctx.last_pt, ctx.last_pt>>
    \/ el = <<"ClosePath">> /\ ZeroLengthSubpath

\* the step consumes a path element of zero length
ZeroLengthStep ==
    /\ Len(path') = Len(path) + 1
    /\ ZeroLengthEl(path'[Len(path')])

\* C30: a path element of zero length is a no-op: a LineTo to the current
\* point, a QuadTo or CurveTo with all its points at the current point, and
\* a ClosePath on a subpath with no geometry leave the whole builder state
\* unchanged, so the flush of a subpath made only of such elements puts
\* nothing into the output, whatever the cap style.
C30_ZeroLengthElementNoOp ==
    [][/\ ZeroLengthStep => ctx' = ctx
       /\ (FlushStep /\ ZeroLengthSubpath) => ctx'.output = ctx.output]_vars

\* C30 witness: after MoveTo(100, 0) a CurveTo and a QuadTo with all points
\* at (100, 0) have been consumed and the input has ended with caps that are
\* not butt caps; the builder is as the MoveTo left it and the output is
\* empty
C30_ZeroLengthSubpathEmitsNothing ==
    /\ pc = "done"
    /\ path = <<<<"MoveTo", <<100, 0>>>>,
                <<"CurveTo", <<100, 0>>, <<100, 0>>, <<100, 0>>>>,
                <<"QuadTo", <<100, 0>>, <<100, 0>>>>>>
    /\ style.start_cap # "Butt"
    /\ ctx = [StrokeCtx_new(Tolerance) EXCEPT !.start_pt = <<100, 0>>,
                                              !.last_pt = <<100, 0>>]
    /\ Out = <<>>


====
